---- MODULE Spec2Model ----
(***************************************************************************)
(* A model of libavfilter's ADM, VMAF and ANSNR filters (vf_adm.c,         *)
(* vf_vmaf.c, vf_ansnr.c).                                                 *)
(*                                                                         *)
(* The per-frame driver compute_adm2 is followed by several                *)
(* specifications over the same control variables (w, h, scale, pc):       *)
(*   - SpecIdx follows only the indices every stage reads and writes, in   *)
(*     the arena, in temp_lo/temp_hi and in the caller's planes;           *)
(*   - SpecLife follows the filter's lifecycle (config_input_ref, do_adm,  *)
(*     uninit);                                                            *)
(*   - SpecAdm follows the values: both planes through the four scales of  *)
(*     adm_dwt2, adm_decouple, adm_csf, adm_cm_thresh, adm_cm and          *)
(*     adm_sum_cube to the score, in a floating point arithmetic of        *)
(*     FloatBits bits rounded to nearest even;                             *)
(*   - SpecPix applies the per-coefficient stages to one coefficient of    *)
(*     each band, drawn from values that include eps and its negation;     *)
(*   - SpecReduce applies the noise floor and the score to sums drawn      *)
(*     around numden_limit, at frame sizes up to 1920 x 1080;              *)
(*   - SpecDwt applies adm_dwt2 to constant planes of every size from      *)
(*     1 x 1, with a value for the memory next to the buffers.             *)
(* SpecVmaf follows the two threads of the vmaf filter (vf_vmaf.c) through *)
(* do_vmaf, read_frame and uninit, statement by statement.                 *)
(* FairVmaf adds the scheduling of the two threads, and SpecVmafLife the   *)
(* filter's lifecycle from init.  SpecAnsnr follows the source indices of  *)
(* the two ansnr_filter2d calls of compute_ansnr (vf_ansnr.c).             *)
(***************************************************************************)
EXTENDS Integers, Sequences, FiniteSets, TLC

(***************************************************************************)
(* Bounds of the model.                                                    *)
(***************************************************************************)
\* the largest frame width and height the index machine is run on
MaxDim == 18
\* the largest width and height of a link in the lifecycle machine
MaxLinkDim == 2
\* the most frames the lifecycle machine passes to do_adm
MaxFrames == 2
\* the bits of a float's mantissa in the model (24 in the program); a double
\* has 2 * FloatBits + 3 (53 in the program)
FloatBits == 4
\* the brightest pixel of the planes the value machine is run on
MaxPix == 1
\* the largest integer coefficient the one-pixel machine is run on
MaxCoef == 1
\* the largest integer sum the reduction is run on
MaxSum == 2
\* the largest width and height of the planes adm_dwt2 alone is run on
MaxBand == 4
\* the largest width and height of the planes ansnr_filter2d is run on
MaxAnsnrDim == 6
\* a float's exponents run from -ExpRange to ExpRange, a double's twice as far
ExpRange == 64

(***************************************************************************)
(* Program constants.                                                      *)
(***************************************************************************)
\* #define MAX_ALIGN 32
MAX_ALIGN == 32
\* sizeof(float)
SizeofFloat == 4
\* the arena holds 35 buffers (config_input_ref: buf_sz * 35)
NumBufs == 35
\* for (scale = 0; scale < 4; scale++)
NumScales == 4
\* const int ansnr_filter2d_ref_width = 3 (vf_ansnr.c)
ansnr_filter2d_ref_width == 3
\* const int ansnr_filter2d_dis_width = 5 (vf_ansnr.c)
ansnr_filter2d_dis_width == 5
\* int filt_w = sizeof(dwt2_db2_coeffs_lo) / sizeof(float): the db2 wavelet
\* has four taps (the array itself is in adm.h)
filt_w == 4

VARIABLES
    w, h,           \* compute_adm2: the current width and height
    orig_w, orig_h, \* the width and height compute_adm2 was called with
    scale,          \* compute_adm2: the loop counter
    pc,             \* the position in compute_adm2
    ext,            \* arena slice -> <<rows, columns>> written in this call
    temp_n,         \* "lo"/"hi" -> entries of temp_lo/temp_hi written in this call
    bad,            \* the kinds of read that did not see a value written in this call
    dwt_out,        \* what the last adm_dwt2 call wrote: rows, columns, slices
    adm_ret,        \* compute_adm2: its local ret
    outs,           \* the caller's outputs compute_adm2 has stored in this call
    inputs,         \* ctx->inputs[0..1]: the two links' w, h and format
    s,              \* ADMContext: width, height, the five buffers, nb_frames
    life,           \* the filter's lifecycle: "init", "configured", "failed", "crashed", "uninit"
    ret,            \* what config_input_ref returned ("none" before it ran)
    core,           \* the compute_adm2 calls made so far: <<w, h, arena buffers>>
    ref, main,      \* compute_adm2's two input planes, as floats
    stale,          \* the float a read outside the filter's buffers yields
    curr_ref_scale, \* the plane the next adm_dwt2 of the reference reads
    curr_main_scale,\* the plane the next adm_dwt2 of the distorted frame reads
    ref_dwt2,       \* the four bands of the reference at this scale
    main_dwt2,      \* the four bands of the distorted frame at this scale
    gain,           \* adm_decouple: kh, kv, kd of every pixel, after the clip
    angle_flag,     \* adm_decouple: angle_flag of every pixel
    decouple_r,     \* the restored bands
    decouple_a,     \* the impairment bands
    csf_o, csf_r, csf_a, \* the weighted reference, restored and impairment bands
    mta,            \* the masking threshold plane
    cm_r,           \* the masked restored bands
    num_scale, den_scale, \* this scale's numerator and denominator (float)
    num, den,       \* the sums over the scales (double)
    scores,         \* scores[0..7]
    numden_limit,   \* the noise floor
    score, score_num, score_den, \* the three outputs of compute_adm2
    frame_set, eof, \* VMAFContext: frame_set and eof
    gref, gmain,    \* VMAFContext: the frames gref and gmain refer to (0: none)
    lock,           \* VMAFContext.lock: the thread that holds it, or "none"
    cond,           \* VMAFContext.cond: the threads waiting on it
    pos,            \* the position of the filter thread and of the worker
    sent,           \* the frame pairs the framework has handed to do_vmaf
    ref_data, main_data, \* the worker's copies of the reference and main frame
    rf_ret,         \* read_frame: its local ret
    consumed,       \* the pairs read_frame delivered to compute_vmaf, in order
    vmaf,           \* VMAFContext: format, width, height, model_path, vmaf_thread
    read_frame      \* compute_vmaf_score: its local read_frame ("none": not set)

outVars == <<adm_ret, outs>>

idxVars == <<w, h, orig_w, orig_h, scale, pc, ext, temp_n, bad, dwt_out, outVars>>

vmafVars == <<frame_set, eof, gref, gmain, lock, cond, pos, sent, ref_data,
              main_data, rf_ret, consumed, vmaf, read_frame>>

lifeVars == <<inputs, s, life, ret, core, vmafVars>>

bandVars == <<curr_ref_scale, curr_main_scale, ref_dwt2, main_dwt2, gain,
              angle_flag, decouple_r, decouple_a, csf_o, csf_r, csf_a, mta,
              cm_r>>

sumVars == <<num_scale, den_scale, num, den, scores, numden_limit, score,
             score_num, score_den>>

valVars == <<ref, main, stale, bandVars, sumVars>>

vars == <<idxVars, lifeVars, valVars>>

\* no plane, band or sum is followed
IdleVal ==
    /\ ref = <<>> /\ main = <<>>
    /\ stale = <<>>
    /\ curr_ref_scale = <<>> /\ curr_main_scale = <<>>
    /\ ref_dwt2 = <<>> /\ main_dwt2 = <<>>
    /\ gain = <<>> /\ angle_flag = <<>>
    /\ decouple_r = <<>> /\ decouple_a = <<>>
    /\ csf_o = <<>> /\ csf_r = <<>> /\ csf_a = <<>>
    /\ mta = <<>> /\ cm_r = <<>>
    /\ num_scale = <<>> /\ den_scale = <<>>
    /\ num = <<>> /\ den = <<>>
    /\ scores = <<>>
    /\ numden_limit = <<>>
    /\ score = <<>> /\ score_num = <<>> /\ score_den = <<>>

(***************************************************************************)
(* Helpers of the C code.                                                  *)
(***************************************************************************)
Abs(x) == IF x < 0 THEN -x ELSE x

Max(a, b) == IF a >= b THEN a ELSE b

\* #define ALIGN_CEIL(x) ((x) + ((x) % MAX_ALIGN ? MAX_ALIGN - (x) % MAX_ALIGN : 0))
ALIGN_CEIL(x) ==
    x + (IF (x % MAX_ALIGN) # 0 THEN MAX_ALIGN - (x % MAX_ALIGN) ELSE 0)

\* a halving that drops the odd column (row)
HalveFloor(n) == n \div 2

\* w = (w + 1) / 2; h = (h + 1) / 2; (lines 502-503)
Halve(n) == (n + 1) \div 2

\* ptrdiff_t buf_stride = ALIGN_CEIL(((w + 1) / 2) * sizeof(float));
buf_stride(w0) == ALIGN_CEIL(((w0 + 1) \div 2) * SizeofFloat)

\* size_t buf_sz = (size_t)buf_stride * ((h + 1) / 2);
buf_sz(w0, h0) == buf_stride(w0) * ((h0 + 1) \div 2)

\* a reflection at zero only
AbsOnly(idx, dim) == Abs(idx)

\* The mirror rule of adm_dwt2 (and of adm_cm_thresh):
\*   src_i = FFABS(src_i); if (src_i >= h) src_i = 2 * h - src_i - 1;
Mirror(idx, dim) ==
    LET a == Abs(idx) IN IF a >= dim THEN 2 * dim - a - 1 ELSE a

(***************************************************************************)
(* The arena layout of compute_adm2 (lines 473-491): 35 slices of buf_sz   *)
(* bytes each, in this order.                                              *)
(***************************************************************************)
S_ref_scale  == 0
S_main_scale == 1
S_ref_dwt2   == 2
S_main_dwt2  == 6
S_decouple_r == 10
S_decouple_a == 14
S_csf_o      == 18
S_csf_r      == 22
S_csf_a      == 26
S_mta        == 30
S_cm_r       == 31

\* init_dwt_band: band_a, band_h, band_v, band_d follow each other
band_a(base) == base
band_h(base) == base + 1
band_v(base) == base + 2
band_d(base) == base + 3

AllBands(base) == {band_a(base), band_h(base), band_v(base), band_d(base)}
DetailBands(base) == {band_h(base), band_v(base), band_d(base)}

\* floats per arena row and per arena slice
PxStride == buf_stride(orig_w) \div SizeofFloat
SliceFloats == buf_sz(orig_w, orig_h) \div SizeofFloat

\* The cell that element (i, j) of slice k really is: the address
\* base + k * buf_sz + i * buf_stride + j * sizeof(float), as a slice, a row
\* and a column of the arena (slice -1 or 35: outside the arena).
Cell(k, i, j) ==
    LET addr == k * SliceFloats + i * PxStride + j
        kk   == addr \div SliceFloats
        off  == addr % SliceFloats
    IN  <<kk, off \div PxStride, off % PxStride>>

\* Element (i, j) of slice k was written earlier in this call.
Written(k, i, j) ==
    LET c == Cell(k, i, j) IN
    /\ c[1] \in 0..(NumBufs - 1)
    /\ c[2] < ext[c[1]][1]
    /\ c[3] < ext[c[1]][2]

\* The tags a read of rows x cols of each slice of ks adds to bad.
\* (Columns inside one arena row stay in that row, so the largest decides.)
ArenaRead(ks, rows, cols) ==
    LET last == CHOOSE j \in cols : \A jj \in cols : jj <= j
        ok == IF cols = {} \/ rows = {} THEN TRUE
              ELSE IF cols \subseteq 0..(PxStride - 1)
              THEN \A k \in ks, i \in rows : Written(k, i, last)
              ELSE \A k \in ks, i \in rows, j \in cols : Written(k, i, j)
    IN  IF ok THEN {} ELSE {"arena"}

\* ext after rows x cols (both from 0) of each slice of ks are written.
ArenaWrite(e, ks, nrows, ncols) ==
    [k \in 0..(NumBufs - 1) |->
        IF k \in ks THEN <<Max(e[k][1], nrows), Max(e[k][2], ncols)>> ELSE e[k]]

(***************************************************************************)
(* adm_dwt2 (lines 307-402), as indices.                                   *)
(***************************************************************************)
\* the rows of src the vertical pass reads (lines 322, 328-339)
DwtSrcRows(hh) ==
    { Mirror(2 * i - 1 + filt_i, hh) :
        i \in {ii \in 0..hh : ii < (hh + 1) \div 2}, filt_i \in 0..(filt_w - 1) }

\* the entries of temp_lo (temp_hi) the horizontal passes read (350-365, 376-391)
DwtTempCols(ww) ==
    { Mirror(2 * j - 1 + filt_j, ww) :
        j \in {jj \in 0..ww : jj < (ww + 1) \div 2}, filt_j \in 0..(filt_w - 1) }

\* Reading the source plane of adm_dwt2: the caller's plane at scale 0,
\* ref_scale/main_scale afterwards.
DwtSrcRead(slice) ==
    IF scale = 0
    THEN IF DwtSrcRows(h) \subseteq 0..(orig_h - 1) THEN {} ELSE {"plane"}
    ELSE ArenaRead({slice}, DwtSrcRows(h), 0..(w - 1))

\* Row i writes temp_lo[0..w) and temp_hi[0..w) before the horizontal passes
\* of the same row read them.
DwtTempRead == IF DwtTempCols(w) \subseteq 0..(w - 1) THEN {} ELSE {"temp"}

\* a transform that writes a row for every row it reads
FullRows(hh) == hh

\* the rows adm_dwt2 writes: for (i = 0; i < (h + 1) / 2; i++) (line 322)
DwtOutRows(hh) == Cardinality({i \in 0..hh : i < (hh + 1) \div 2})

\* the columns it writes: for (j = 0; j < (w + 1) / 2; j++) (lines 350, 376)
DwtOutCols(ww) == Cardinality({j \in 0..ww : j < (ww + 1) \div 2})

\* the floats of temp_lo (temp_hi): av_malloc(stride) (lines 677, 702, 706)
TempFloats == ALIGN_CEIL(orig_w * SizeofFloat) \div SizeofFloat

\* adm_dwt2 reads a float that lies in none of the filter's buffers: before
\* temp_lo or temp_hi, above the first row of the caller's plane, or before
\* the arena
DwtOutside(slice) ==
    \/ ~(DwtTempCols(w) \subseteq 0..(TempFloats - 1))
    \/ scale = 0 /\ ~(DwtSrcRows(h) \subseteq 0..(orig_h - 1))
    \/ /\ scale > 0
       /\ \E i \in DwtSrcRows(h) : Cell(slice, i, 0)[1] \notin 0..(NumBufs - 1)

\* One adm_dwt2 call.  A read outside every buffer is undefined: it yields
\* whatever the memory holds and the call goes on, or the access traps.
X_adm_dwt2(at, next, src, dst) ==
    /\ pc = at
    /\ bad' = bad \cup DwtSrcRead(src) \cup DwtTempRead
    /\ \/ /\ temp_n' = [t \in {"lo", "hi"} |-> Max(temp_n[t], w)]
          /\ dwt_out' = [rows |-> DwtOutRows(h), cols |-> DwtOutCols(w),
                         bands |-> AllBands(dst)]
          /\ ext' = ArenaWrite(ext, AllBands(dst), DwtOutRows(h), DwtOutCols(w))
          /\ pc' = next
       \/ /\ DwtOutside(src)
          /\ pc' = "SIGSEGV"
          /\ UNCHANGED <<temp_n, dwt_out, ext>>
    /\ UNCHANGED <<lifeVars, valVars, outVars>>

\* adm_dwt2(curr_ref_scale, &ref_dwt2, ...) (line 497)
X_dwt_ref ==
    /\ X_adm_dwt2("dwt_ref", "dwt_main", S_ref_scale, S_ref_dwt2)
    /\ UNCHANGED <<w, h, orig_w, orig_h, scale>>

\* adm_dwt2(curr_main_scale, &main_dwt2, ...); w = (w + 1) / 2; h = (h + 1) / 2;
\* (lines 499-503)
X_dwt_main ==
    /\ X_adm_dwt2("dwt_main", "decouple", S_main_scale, S_main_dwt2)
    /\ w' = IF pc' = "SIGSEGV" THEN w ELSE Halve(w)
    /\ h' = IF pc' = "SIGSEGV" THEN h ELSE Halve(h)
    /\ UNCHANGED <<orig_w, orig_h, scale>>

\* a stage that reads rows x cols of the slices rd and writes h x w of wr
X_stage(at, next, rd, rows, cols, wr) ==
    /\ pc = at
    /\ bad' = bad \cup ArenaRead(rd, rows, cols)
    /\ ext' = ArenaWrite(ext, wr, h, w)
    /\ pc' = next
    /\ UNCHANGED <<w, h, orig_w, orig_h, scale, temp_n, dwt_out>>
    /\ UNCHANGED <<lifeVars, valVars, outVars>>

\* adm_decouple (lines 122-186, called at 505)
X_decouple ==
    X_stage("decouple", "csf",
            DetailBands(S_ref_dwt2) \cup DetailBands(S_main_dwt2),
            0..(h - 1), 0..(w - 1),
            DetailBands(S_decouple_r) \cup DetailBands(S_decouple_a))

\* the three adm_csf calls (lines 188-218, called at 508-510)
X_csf ==
    X_stage("csf", "cm_thresh",
            DetailBands(S_ref_dwt2) \cup DetailBands(S_decouple_r)
                \cup DetailBands(S_decouple_a),
            0..(h - 1), 0..(w - 1),
            DetailBands(S_csf_o) \cup DetailBands(S_csf_r)
                \cup DetailBands(S_csf_a))

\* the rows (columns) of the band adm_cm_thresh reads (lines 245-261)
ThreshSrc(dim) ==
    { Mirror(i - 1 + filt_i, dim) : i \in 0..(dim - 1), filt_i \in 0..2 }

\* adm_cm_thresh (lines 220-271, called at 512)
X_cm_thresh ==
    X_stage("cm_thresh", "cm", DetailBands(S_csf_a),
            ThreshSrc(h), ThreshSrc(w), {S_mta})

\* adm_cm (lines 273-305, called at 513)
X_cm ==
    X_stage("cm", "sum_cube", DetailBands(S_csf_r) \cup {S_mta},
            0..(h - 1), 0..(w - 1), DetailBands(S_cm_r))

\* int left = w * border_factor - 0.5, with ADM_BORDER_FACTOR = 0.1 (adm.h):
\* the conversion to int truncates towards zero
BorderLo(dim) == IF dim < 5 THEN 0 ELSE (dim - 5) \div 10

\* the rows (columns) adm_sum_cube reads: top..bottom-1 (left..right-1)
SumCubeRange(dim) == BorderLo(dim)..(dim - BorderLo(dim) - 1)

\* the six adm_sum_cube calls (lines 97-120, called at 515-521)
X_sum_cube ==
    X_stage("sum_cube", "copy",
            DetailBands(S_cm_r) \cup DetailBands(S_csf_o),
            SumCubeRange(h), SumCubeRange(w), {})

\* scores[2*scale+0] = num_scale; scores[2*scale+1] = den_scale; (536-537)
ScoresStored(sc) == {<<"scores", 2 * sc>>, <<"scores", 2 * sc + 1>>}

\* *score = ...; *score_num = num; *score_den = den; (lines 543-549)
ScoreStored == {<<"score", 0>>, <<"score_num", 0>>, <<"score_den", 0>>}

\* the two adm_buffer_copy calls and the end of the loop body (lines 526-538)
X_copy ==
    /\ pc = "copy"
    /\ bad' = bad \cup ArenaRead({band_a(S_ref_dwt2), band_a(S_main_dwt2)},
                                 0..(h - 1), 0..(w - 1))
    /\ ext' = ArenaWrite(ext, {S_ref_scale, S_main_scale}, h, w)
    /\ outs' = outs \cup ScoresStored(scale)
    /\ scale' = scale + 1
    /\ pc' = IF scale + 1 < NumScales THEN "dwt_ref" ELSE "final"
    /\ UNCHANGED <<w, h, orig_w, orig_h, temp_n, dwt_out, adm_ret>>
    /\ UNCHANGED <<lifeVars, valVars>>

\* lines 540-553: the noise floor, the score, return
X_final ==
    /\ pc = "final"
    /\ outs' = outs \cup ScoreStored
    /\ adm_ret' = 0
    /\ pc' = "done"
    /\ UNCHANGED <<w, h, orig_w, orig_h, scale, ext, temp_n, bad, dwt_out>>
    /\ UNCHANGED <<lifeVars, valVars>>

\* the frame sizes the index machine is run on: every small one, and the
\* sizes 63 and 64
DimSet == (1..MaxDim) \cup {63, 64}

\* there is no vmaf filter
IdleVmaf ==
    /\ frame_set = 0 /\ eof = 0
    /\ gref = 0 /\ gmain = 0
    /\ lock = "none"
    /\ cond = {}
    /\ pos = <<>>
    /\ sent = 0
    /\ ref_data = 0 /\ main_data = 0
    /\ rf_ret = 0
    /\ consumed = <<>>
    /\ vmaf = <<>>
    /\ read_frame = "none"

\* there is no adm filter
NoAdmFilter ==
    /\ inputs = <<>>
    /\ s = <<>>
    /\ life = "idle"
    /\ ret = "none"
    /\ core = <<>>

\* the filter's variables while only compute_adm2 is followed
IdleLife == NoAdmFilter /\ IdleVmaf

\* compute_adm2 is entered with some w, h >= 1; nothing of the arena or of the
\* temporary rows has been written in this call.
InitIdx ==
    /\ orig_w \in DimSet
    /\ orig_h \in DimSet
    /\ w = orig_w
    /\ h = orig_h
    /\ scale = 0
    /\ pc = "dwt_ref"
    /\ ext = [k \in 0..(NumBufs - 1) |-> <<0, 0>>]
    /\ temp_n = [t \in {"lo", "hi"} |-> 0]
    /\ bad = {}
    /\ dwt_out = [rows |-> 0, cols |-> 0, bands |-> {}]
    /\ adm_ret = 1
    /\ outs = {}
    /\ IdleLife
    /\ IdleVal

NextIdx ==
    \/ X_dwt_ref
    \/ X_dwt_main
    \/ X_decouple
    \/ X_csf
    \/ X_cm_thresh
    \/ X_cm
    \/ X_sum_cube
    \/ X_copy
    \/ X_final

SpecIdx == InitIdx /\ [][NextIdx]_vars

(***************************************************************************)
(* The filter's lifecycle: init, config_input_ref, do_adm, uninit.         *)
(***************************************************************************)
\* query_formats (lines 640-652): the pixel formats a link can have
pix_fmts == {"yuv444p", "yuv422p", "yuv420p",
             "yuv444p10le", "yuv422p10le", "yuv420p10le"}

Buffers == <<"ref_data", "main_data", "data_buf", "temp_lo", "temp_hi">>

BufferNames == {Buffers[n] : n \in 1..5}

\* a pointer of ADMContext: NULL, a live allocation of sz bytes, or freed
NullPtr == [st |-> "null", sz |-> 0]

\* compute_adm2 is not running
IdleIdx ==
    /\ w = 0 /\ h = 0 /\ orig_w = 0 /\ orig_h = 0
    /\ scale = 0
    /\ pc = "idle"
    /\ ext = <<>>
    /\ temp_n = <<>>
    /\ bad = {}
    /\ dwt_out = <<>>
    /\ adm_ret = 1
    /\ outs = {}

\* the widths and heights of the links the lifecycle is run on: the small
\* ones, and one whose half-resolution row is longer than one alignment unit
LinkDims == (0..MaxLinkDim) \cup {MaxDim}

\* init (lines 631-638): the context is the zeroed priv_size bytes
InitLife ==
    /\ inputs \in [{0, 1} -> [w : LinkDims, h : LinkDims, format : pix_fmts]]
    /\ s = [width |-> 0, height |-> 0, nb_frames |-> 0,
            buf |-> [b \in BufferNames |-> NullPtr]]
    /\ life = "init"
    /\ ret = "none"
    /\ core = <<>>
    /\ IdleVmaf
    /\ IdleIdx
    /\ IdleVal

\* The bytes config_input_ref asks av_malloc for, in the order of its calls
\* (lines 677-706).
AllocSize(n, width, height) ==
    LET stride == ALIGN_CEIL(width * SizeofFloat)
        \* lines 690-691, config_input_ref's own buf_stride and buf_sz
        row    == ALIGN_CEIL(((width + 1) \div 2) * SizeofFloat)
        one    == row * ((height + 1) \div 2)
    IN  CASE n = 1 -> stride * height
          [] n = 2 -> stride * height
          [] n = 3 -> one * NumBufs
          [] n = 4 -> stride
          [] n = 5 -> stride

\* The buffers after the first `got` allocations succeeded.
Allocated(got, width, height) ==
    [b \in BufferNames |->
        IF \E n \in 1..got : Buffers[n] = b
        THEN [st |-> "live",
              sz |-> AllocSize(CHOOSE n \in 1..5 : Buffers[n] = b, width, height)]
        ELSE NullPtr]

\* if (SIZE_MAX / buf_sz < 35) (line 693), SIZE_MAX = 2^32 - 1 on the 32-bit
\* build: the quotient is below 35 exactly when buf_sz > SIZE_MAX / 35
SizeMaxDiv35 == 122713351

\* What line 693 does: "EINVAL" (the test is true), "go on" (it is false) or,
\* when buf_sz is 0, whatever the division by zero does: the x86 div traps
\* (SIGFPE); the C standard leaves the behaviour undefined, so the test may
\* also come out either way.
ArenaCheckOutcomes(bs) ==
    IF bs = 0 THEN {"SIGFPE", "EINVAL", "go on"}
    ELSE IF bs > SizeMaxDiv35 THEN {"EINVAL"} ELSE {"go on"}

\* a test of the sizes alone
SizeMismatch(a, b) == a.w # b.w \/ a.h # b.h

\* the two tests of lines 663-664 and 668: the links differ in width, in
\* height or in pixel format
Mismatch(a, b) == a.w # b.w \/ a.h # b.h \/ a.format # b.format

\* config_input_ref (lines 654-711).  fail is the av_malloc call that returns
\* NULL (6: none does); ub is what line 693 does.
config_input_ref ==
    /\ life = "init"
    /\ \E fail \in 1..6 :
       \E ub \in ArenaCheckOutcomes(buf_sz(inputs[0].w, inputs[0].h)) :
         IF Mismatch(inputs[0], inputs[1])
         THEN /\ ret' = "EINVAL"
              /\ life' = "failed"
              /\ s' = s
         ELSE LET width  == inputs[0].w
                  height == inputs[0].h
                  \* the allocations made before the function returns
                  got == IF fail <= 2 THEN fail - 1
                         ELSE IF ub # "go on" THEN 2
                         ELSE fail - 1
              IN  /\ s' = [s EXCEPT !.width = width, !.height = height,
                                    !.buf = Allocated(got, width, height)]
                  /\ ret' = IF fail <= 2 THEN "ENOMEM"
                            ELSE IF ub # "go on" THEN ub
                            ELSE IF fail <= 5 THEN "ENOMEM"
                            ELSE "ok"
                  /\ life' = IF fail <= 2 THEN "failed"
                             ELSE IF ub = "SIGFPE" THEN "crashed"
                             ELSE IF ub = "EINVAL" \/ fail <= 5 THEN "failed"
                             ELSE "configured"
    /\ UNCHANGED <<inputs, core>>
    /\ UNCHANGED <<idxVars, valVars, vmafVars>>

\* a band group that leaves no room for its last band
init_dwt_band_short(data_top, bs) ==
    [band_a |-> data_top, band_h |-> data_top + bs,
     band_v |-> data_top + 2 * bs, band_d |-> data_top + 3 * bs,
     data_top |-> data_top + 3 * bs]

\* init_dwt_band (lines 418-429): the four bands of a group, as byte offsets
\* from data_buf, and the data_top it returns
init_dwt_band(data_top, bs) ==
    [band_a |-> data_top, band_h |-> data_top + bs,
     band_v |-> data_top + 2 * bs, band_d |-> data_top + 3 * bs,
     data_top |-> data_top + 4 * bs]

\* compute_adm2, lines 473-491: the arena cut into buffers of bs bytes, each
\* pointer as its byte offset from data_buf, and the data_top left at the end
ArenaLayout(bs) ==
    LET ref_scale_p  == 0
        main_scale_p == ref_scale_p + bs
        ref_dwt2_p   == init_dwt_band(main_scale_p + bs, bs)
        main_dwt2_p  == init_dwt_band(ref_dwt2_p.data_top, bs)
        decouple_r_p == init_dwt_band(main_dwt2_p.data_top, bs)
        decouple_a_p == init_dwt_band(decouple_r_p.data_top, bs)
        csf_o_p      == init_dwt_band(decouple_a_p.data_top, bs)
        csf_r_p      == init_dwt_band(csf_o_p.data_top, bs)
        csf_a_p      == init_dwt_band(csf_r_p.data_top, bs)
        mta_p        == csf_a_p.data_top
        cm_r_p       == init_dwt_band(mta_p + bs, bs)
    IN  [ref_scale |-> ref_scale_p, main_scale |-> main_scale_p,
         ref_dwt2 |-> ref_dwt2_p, main_dwt2 |-> main_dwt2_p,
         decouple_r |-> decouple_r_p, decouple_a |-> decouple_a_p,
         csf_o |-> csf_o_p, csf_r |-> csf_r_p, csf_a |-> csf_a_p,
         mta |-> mta_p, cm_r |-> cm_r_p, data_top |-> cm_r_p.data_top]

\* do_adm (lines 594-629): the frame pair is converted and passed to
\* compute_adm2, which cuts the arena (lines 464-491) and enters its loop
\* over the scales at once (there is no test between lines 431 and 493).  The framework calls it only on a
\* configured filter.
do_adm ==
    /\ life = "configured"
    /\ s.nb_frames < MaxFrames
    /\ core' = Append(core, [w |-> s.width, h |-> s.height,
                             data_buf |-> s.buf["data_buf"].sz,
                             buf_sz |-> buf_sz(s.width, s.height),
                             arena |-> ArenaLayout(buf_sz(s.width, s.height))])
    /\ s' = [s EXCEPT !.nb_frames = @ + 1]
    /\ UNCHANGED <<inputs, life, ret>>
    /\ UNCHANGED <<idxVars, valVars, vmafVars>>

\* a teardown that forgets the last pointer
FreedButLast(buf) ==
    [b \in BufferNames |->
        IF buf[b].st = "live" /\ b # Buffers[5] THEN [buf[b] EXCEPT !.st = "freed"]
        ELSE buf[b]]

\* lines 752-756: av_free of the five pointers (av_free(NULL) does nothing)
Freed(buf) ==
    [b \in BufferNames |->
        IF buf[b].st = "live" THEN [buf[b] EXCEPT !.st = "freed"] ELSE buf[b]]

\* uninit (lines 744-759)
uninit ==
    /\ life \in {"init", "configured", "failed"}
    /\ s' = [s EXCEPT !.buf = Freed(s.buf)]
    /\ life' = "uninit"
    /\ UNCHANGED <<inputs, ret, core>>
    /\ UNCHANGED <<idxVars, valVars, vmafVars>>

NextLife ==
    \/ config_input_ref
    \/ do_adm
    \/ uninit

SpecLife == InitLife /\ [][NextLife]_vars

(***************************************************************************)
(* Floating point.  A float is <<m, e>>, the value m * 2^e: m has exactly  *)
(* FloatBits bits (fewer for a subnormal, whose e is the least exponent),  *)
(* zero is <<0, 0>>, the infinities are <<1, InfExp>> and <<-1, InfExp>>,   *)
(* NaN is <<0, InfExp>>.  A double is the same with more bits.  Every      *)
(* operation rounds to nearest, ties to even, as the SSE unit does.  The   *)
(* widths are scaled down from IEEE 754's 24 and 53 bits.                  *)
(*                                                                         *)
(* An operand or an intermediate value that is used more than once is      *)
(* bound once, by ranging over the set that holds only it.                 *)
(***************************************************************************)
F32 == [p |-> FloatBits, emin |-> 0 - ExpRange, emax |-> ExpRange]

F64 == [p |-> 2 * FloatBits + 3, emin |-> 0 - 2 * ExpRange, emax |-> 2 * ExpRange]

InfExp == 4 * ExpRange

NaN == <<0, InfExp>>

Inf(sgn) == <<sgn, InfExp>>

Zero == <<0, 0>>

IsNaN(x) == x = NaN

IsInf(x) == x[2] = InfExp /\ x[1] # 0

IsFinite(x) == x[2] # InfExp

Sign(n) == IF n > 0 THEN 1 ELSE IF n < 0 THEN -1 ELSE 0

\* the number of bits of n > 0
Bits(n) == CHOOSE b \in 1..30 : 2^(b - 1) <= n /\ n < 2^b

\* sgn * m * 2^e as a float of format f, or the infinity when it is too large
Pack(f, sgn, m, e) == IF e > f.emax THEN Inf(sgn) ELSE <<sgn * m, e>>

\* the rounded mantissa m1 may have one bit too many
Carry(f, sgn, m1, e1) ==
    IF m1 = 0 THEN Zero
    ELSE IF m1 = 2^f.p THEN Pack(f, sgn, 2^(f.p - 1), e1 + 1)
    ELSE Pack(f, sgn, m1, e1)

\* round to nearest, ties to even: m0 are the bits kept, low the bits
\* dropped, half the weight of the first dropped bit, R what the division
\* left over
Nearest(f, sgn, m0, low, half, R, e1) ==
    CHOOSE v \in
        {Carry(f, sgn, m1, e1) :
            m1 \in {IF low > half \/ (low = half /\ (R # 0 \/ m0 % 2 = 1))
                    THEN m0 + 1 ELSE m0}} : TRUE

\* drop d bits of the quotient Q, which has bq bits
Drop(f, sgn, Q, R, e0, bq, d) ==
    IF d > bq + 1 THEN Zero
    ELSE Nearest(f, sgn, Q \div 2^d, Q % 2^d, 2^(d - 1), R, e0 + d)

\* the bits to drop: all but f.p, and more when the result is subnormal
Narrow(f, sgn, Q, R, e0, bq) ==
    CHOOSE v \in
        {Drop(f, sgn, Q, R, e0, bq, d) :
            d \in {IF e0 + bq - f.p < f.emin THEN f.emin - e0 ELSE bq - f.p}} : TRUE

Quotient(f, sgn, Q, R, e0) ==
    CHOOSE v \in {Narrow(f, sgn, Q, R, e0, bq) : bq \in {Bits(Q)}} : TRUE

\* scale nn / dd by 2^t so that the quotient has at least f.p + 2 bits
Scaled(f, sgn, nn, dd, E, t) ==
    CHOOSE v \in
        {Quotient(f, sgn, N \div D, N % D, E - t) :
            N \in {IF t >= 0 THEN nn * 2^t ELSE nn},
            D \in {IF t >= 0 THEN dd ELSE dd * 2^(0 - t)}} : TRUE

\* sgn * (nn / dd) * 2^E rounded to format f (nn >= 0, dd > 0)
Round(f, sgn, nn, dd, E) ==
    IF nn = 0 THEN Zero
    ELSE CHOOSE v \in
            {Scaled(f, sgn, nn, dd, E, t) :
                t \in {f.p + 2 + Bits(dd) - Bits(nn)}} : TRUE

\* a conversion between float and double
Cvt(f, x) ==
    CHOOSE v \in
        {IF IsFinite(a) THEN Round(f, Sign(a[1]), Abs(a[1]), 1, a[2]) ELSE a :
            a \in {x}} : TRUE

\* the conversion of an int
FromInt(f, n) == Round(f, Sign(n), Abs(n), 1, 0)

\* n / d as a constant of format f
Const(f, n, d) == Round(f, Sign(n), Abs(n), d, 0)

\* -x of a float that is already evaluated
Neg(x) == IF IsNaN(x) THEN x ELSE <<0 - x[1], x[2]>>

FNeg(x) == CHOOSE v \in {Neg(a) : a \in {x}} : TRUE

\* fabsf
fabsf(x) == CHOOSE v \in {IF IsNaN(a) THEN a ELSE <<Abs(a[1]), a[2]>> : a \in {x}} : TRUE

\* mlo * 2^lo + mhi * 2^(lo + dh), two finite non-zero floats: the lower one
\* cannot change the sum when it is more than f.p + 2 bits below
AddAligned(f, mlo, mhi, dh, lo) ==
    IF dh > f.p + 2 THEN <<mhi, lo + dh>>
    ELSE CHOOSE v \in {Round(f, Sign(M), Abs(M), 1, lo) : M \in {mlo + mhi * 2^dh}} : TRUE

\* x + y of two floats that are already evaluated
Add(f, x, y) ==
    IF IsNaN(x) \/ IsNaN(y) THEN NaN
    ELSE IF IsInf(x) THEN (IF IsInf(y) /\ y[1] # x[1] THEN NaN ELSE x)
    ELSE IF IsInf(y) THEN y
    ELSE IF x[1] = 0 THEN y
    ELSE IF y[1] = 0 THEN x
    ELSE IF x[2] <= y[2] THEN AddAligned(f, x[1], y[1], y[2] - x[2], x[2])
    ELSE AddAligned(f, y[1], x[1], x[2] - y[2], y[2])

\* x + y
FAdd(f, x, y) == CHOOSE v \in {Add(f, a, b) : a \in {x}, b \in {y}} : TRUE

\* x - y
FSub(f, x, y) == CHOOSE v \in {Add(f, a, Neg(b)) : a \in {x}, b \in {y}} : TRUE

Mul(f, x, y) ==
    IF IsNaN(x) \/ IsNaN(y) THEN NaN
    ELSE IF IsInf(x) \/ IsInf(y)
         THEN (IF x[1] = 0 \/ y[1] = 0 THEN NaN ELSE Inf(Sign(x[1]) * Sign(y[1])))
    ELSE Round(f, Sign(x[1]) * Sign(y[1]), Abs(x[1]) * Abs(y[1]), 1, x[2] + y[2])

\* x * y
FMul(f, x, y) == CHOOSE v \in {Mul(f, a, b) : a \in {x}, b \in {y}} : TRUE

Div(f, x, y) ==
    IF IsNaN(x) \/ IsNaN(y) THEN NaN
    ELSE IF IsInf(x) THEN (IF IsInf(y) THEN NaN
                           ELSE Inf(x[1] * (IF y[1] < 0 THEN -1 ELSE 1)))
    ELSE IF IsInf(y) THEN Zero
    ELSE IF y[1] = 0 THEN (IF x[1] = 0 THEN NaN ELSE Inf(Sign(x[1])))
    ELSE Round(f, Sign(x[1]) * Sign(y[1]), Abs(x[1]), Abs(y[1]), x[2] - y[2])

\* x / y
FDiv(f, x, y) == CHOOSE v \in {Div(f, a, b) : a \in {x}, b \in {y}} : TRUE

\* x < y of two floats that are already evaluated (false when either is a NaN)
Lt(x, y) ==
    /\ ~IsNaN(x)
    /\ ~IsNaN(y)
    /\ IF Sign(x[1]) # Sign(y[1]) THEN Sign(x[1]) < Sign(y[1])
       ELSE IF x[1] = 0 THEN FALSE
       ELSE IF x[1] > 0 THEN x[2] < y[2] \/ (x[2] = y[2] /\ x[1] < y[1])
       ELSE y[2] < x[2] \/ (x[2] = y[2] /\ x[1] < y[1])

\* x < y, x > y, x >= y, x == y
FLt(x, y) == \E a \in {x}, b \in {y} : Lt(a, b)

FGt(x, y) == \E a \in {x}, b \in {y} : Lt(b, a)

FGe(x, y) == \E a \in {x}, b \in {y} : ~IsNaN(a) /\ ~IsNaN(b) /\ ~Lt(a, b)

FEq(x, y) == \E a \in {x}, b \in {y} : ~IsNaN(a) /\ ~IsNaN(b) /\ a = b

\* the constant 1.0f
One == Const(F32, 1, 1)

(***************************************************************************)
(* The kernels on values.  A plane is a function row -> column -> float;   *)
(* a band set is a record of planes.                                       *)
(***************************************************************************)
\* the plane of one field of a plane of records
Field(px, name) == [i \in DOMAIN px |-> [j \in DOMAIN px[i] |-> px[i][j][name]]]

\* sum = 0; for (n = 0; n < len; n++) sum += filt[n] * xs[n]; in float
RECURSIVE MulAcc(_, _, _)
MulAcc(filt, xs, len) ==
    IF len = 0 THEN Zero
    ELSE FAdd(F32, MulAcc(filt, xs, len - 1), FMul(F32, filt[len], xs[len]))

\* dwt2_db2_coeffs_lo, dwt2_db2_coeffs_hi (adm.h), as floats
filter_lo ==
    <<Const(F32, 4830, 10000), Const(F32, 8365, 10000),
      Const(F32, 2241, 10000), Const(F32, -1294, 10000)>>

filter_hi ==
    <<Const(F32, -1294, 10000), Const(F32, -2241, 10000),
      Const(F32, 8365, 10000), Const(F32, -4830, 10000)>>

\* the filt_w indices of a column or row that one output sample reads
\* (lines 332-337, 358-363)
Taps(out, dim) == [n \in 1..filt_w |-> Mirror(2 * out - 1 + (n - 1), dim)]

\* the samples of column j that output row i reads (line 339); a row
\* outside the plane is memory the filter does not own
Column(src, i, j, hh) ==
    [n \in 1..filt_w |->
        IF Taps(i, hh)[n] \in DOMAIN src THEN src[Taps(i, hh)[n]][j] ELSE stale]

\* the entries of a temporary row that output column j reads (lines 365,
\* 391); an entry outside the row is memory the filter does not own
RowTaps(temp, j, ww) ==
    [n \in 1..filt_w |->
        IF Taps(j, ww)[n] \in DOMAIN temp THEN temp[Taps(j, ww)[n]] ELSE stale]

\* the two horizontal passes of one output row (lines 349-399)
HorizPass(temp_lo, temp_hi, ww) ==
    [j \in 0..(DwtOutCols(ww) - 1) |->
        [band_a |-> MulAcc(filter_lo, RowTaps(temp_lo, j, ww), filt_w),
         band_v |-> MulAcc(filter_hi, RowTaps(temp_lo, j, ww), filt_w),
         band_h |-> MulAcc(filter_lo, RowTaps(temp_hi, j, ww), filt_w),
         band_d |-> MulAcc(filter_hi, RowTaps(temp_hi, j, ww), filt_w)]]

\* one output row: the vertical pass into temp_lo and temp_hi (lines 324-347),
\* then the horizontal passes
DwtRow(src, i, ww, hh) ==
    CHOOSE v \in
        {HorizPass(temp_lo, temp_hi, ww) :
            temp_lo \in {[j \in 0..(ww - 1) |->
                            MulAcc(filter_lo, Column(src, i, j, hh), filt_w)]},
            temp_hi \in {[j \in 0..(ww - 1) |->
                            MulAcc(filter_hi, Column(src, i, j, hh), filt_w)]}} : TRUE

\* adm_dwt2 (lines 307-402)
adm_dwt2(src, ww, hh) ==
    CHOOSE v \in
        {[band_a |-> Field(out, "band_a"), band_h |-> Field(out, "band_h"),
          band_v |-> Field(out, "band_v"), band_d |-> Field(out, "band_d")] :
            out \in {[i \in 0..(DwtOutRows(hh) - 1) |-> DwtRow(src, i, ww, hh)]}} : TRUE

\* _mm_rcp_ss (line 66): an estimate of 1/x good to about half the mantissa;
\* a zero or subnormal x gives an infinity, an infinity gives zero
IsSubnormal(x) == \E a \in {x} : IsFinite(a) /\ Abs(a[1]) < 2^(FloatBits - 1)

HalfFloat == [p |-> (FloatBits + 1) \div 2, emin |-> 0 - ExpRange, emax |-> ExpRange]

RcpEstimate(x) ==
    IF IsNaN(x) THEN NaN
    ELSE IF IsInf(x) THEN Zero
    ELSE IF IsSubnormal(x) THEN Inf(IF x[1] < 0 THEN -1 ELSE 1)
    ELSE Cvt(F32, Round(HalfFloat, Sign(x[1]), 1, Abs(x[1]), 0 - x[2]))

rcp_ss(x) == CHOOSE v \in {RcpEstimate(a) : a \in {x}} : TRUE

\* xi + xi * (1.0f - x * xi) (line 67)
Newton(x, xi) == FAdd(F32, xi, FMul(F32, xi, FSub(F32, One, FMul(F32, x, xi))))

\* rcp (lines 64-68)
rcp(x) ==
    CHOOSE v \in
        {CHOOSE u \in {Newton(a, xi) : xi \in {rcp_ss(a)}} : TRUE : a \in {x}} : TRUE

\* DIVS (line 70)
DIVS(n, d) == FMul(F32, n, rcp(d))

\* const float eps = 1e-30 (line 128): a float far below 1 and far above the
\* least normal float
eps == Round(F32, 1, 1, 1, 0 - ((3 * ExpRange) \div 4))

\* a squared cosine above 1
cos_sq_above_one == Const(F32, 2, 1)

\* cos_1deg_sq (line 127): 0.9997 as a float, the float below 1.0 at the
\* model's width
cos_1deg_sq == <<2^FloatBits - 1, 0 - FloatBits>>

\* kh < 0.0 ? 0.0 : (kh > 1.0 ? 1.0 : kh) (lines 154-158)
Clip01(x) ==
    CHOOSE v \in
        {IF Lt(a, Zero) THEN Zero ELSE IF Lt(One, a) THEN One ELSE a : a \in {x}} : TRUE

\* angle_flag (lines 164-169)
AngleFlag(oh, ov, th, tv) ==
    \E ot_dp \in {FAdd(F32, FMul(F32, oh, th), FMul(F32, ov, tv))} :
        /\ FGe(ot_dp, Zero)
        /\ FGe(FMul(F32, ot_dp, ot_dp),
               FMul(F32,
                    FMul(F32, cos_1deg_sq,
                         FAdd(F32, FMul(F32, oh, oh), FMul(F32, ov, ov))),
                    FAdd(F32, FMul(F32, th, th), FMul(F32, tv, tv))))

\* tmph = kh * oh; if (angle_flag) tmph = th; (lines 160-175)
Restored(kk, o, t, flag) == IF flag THEN t ELSE FMul(F32, kk, o)

\* what adm_decouple writes for one orientation of one pixel, and the gain
\* (lines 177-183)
DecoupleOne(kk, o, t, flag) ==
    CHOOSE v \in
        {[k |-> kk, r |-> tmp, a |-> FSub(F32, t, tmp)] :
            tmp \in {Restored(kk, o, t, flag)}} : TRUE

\* adm_decouple on one pixel (lines 143-183)
DecouplePixel(oh, ov, od, th, tv, td) ==
    CHOOSE v \in
        {[h |-> DecoupleOne(kh, oh, th, flag),
          v |-> DecoupleOne(kv, ov, tv, flag),
          d |-> DecoupleOne(kd, od, td, flag),
          flag |-> flag] :
            kh \in {Clip01(DIVS(th, FAdd(F32, oh, eps)))},
            kv \in {Clip01(DIVS(tv, FAdd(F32, ov, eps)))},
            kd \in {Clip01(DIVS(td, FAdd(F32, od, eps)))},
            flag \in {AngleFlag(oh, ov, th, tv)}} : TRUE

\* the three bands of one output of adm_decouple
DecoupleBands(px, out) ==
    [band_h |-> [i \in DOMAIN px |-> [j \in DOMAIN px[i] |-> px[i][j].h[out]]],
     band_v |-> [i \in DOMAIN px |-> [j \in DOMAIN px[i] |-> px[i][j].v[out]]],
     band_d |-> [i \in DOMAIN px |-> [j \in DOMAIN px[i] |-> px[i][j].d[out]]]]

\* adm_decouple (lines 122-186) on hh rows of ww pixels
adm_decouple(o, t, ww, hh) ==
    CHOOSE v \in
        {[k |-> DecoupleBands(px, "k"), flag |-> Field(px, "flag"),
          r |-> DecoupleBands(px, "r"), a |-> DecoupleBands(px, "a")] :
            px \in {[i \in 0..(hh - 1) |-> [j \in 0..(ww - 1) |->
                       DecouplePixel(o.band_h[i][j], o.band_v[i][j], o.band_d[i][j],
                                     t.band_h[i][j], t.band_v[i][j], t.band_d[i][j])]]}} : TRUE

\* rfactor of adm_csf (lines 201-203), 1 / dwt_quant_step(scale, theta) with
\* the parameters of adm.h: H and V share theta = 1, D has theta = 2
rfactor1 ==
    <<Const(F32, 174, 10000), Const(F32, 320, 10000),
      Const(F32, 434, 10000), Const(F32, 457, 10000)>>

rfactor2 ==
    <<Const(F32, 59, 10000), Const(F32, 143, 10000),
      Const(F32, 244, 10000), Const(F32, 313, 10000)>>

\* adm_csf (lines 188-218): every coefficient times its band's rfactor
adm_csf(src, sc, ww, hh) ==
    [band_h |-> [i \in 0..(hh - 1) |-> [j \in 0..(ww - 1) |->
                    FMul(F32, rfactor1[sc + 1], src.band_h[i][j])]],
     band_v |-> [i \in 0..(hh - 1) |-> [j \in 0..(ww - 1) |->
                    FMul(F32, rfactor1[sc + 1], src.band_v[i][j])]],
     band_d |-> [i \in 0..(hh - 1) |-> [j \in 0..(ww - 1) |->
                    FMul(F32, rfactor2[sc + 1], src.band_d[i][j])]]]

\* filt_coeff of adm_cm_thresh (lines 247-248), in the order of the two loops
thresh_filter ==
    [n \in 1..9 |-> IF n = 5 THEN Const(F32, 1, 15) ELSE Const(F32, 1, 30)]

\* the 3x3 sum of adm_cm_thresh around (i, j) of one band (lines 243-265)
ThreshSum(plane, i, j, ww, hh) ==
    MulAcc(thresh_filter,
           [n \in 1..9 |->
               fabsf(plane[Mirror(i - 1 + ((n - 1) \div 3), hh)]
                          [Mirror(j - 1 + ((n - 1) % 3), ww)])],
           9)

\* adm_cm_thresh (lines 220-271): dst = 0, then += the sum of each band
adm_cm_thresh(src, ww, hh) ==
    [i \in 0..(hh - 1) |-> [j \in 0..(ww - 1) |->
        FAdd(F32,
             FAdd(F32,
                  FAdd(F32, Zero, ThreshSum(src.band_h, i, j, ww, hh)),
                  ThreshSum(src.band_v, i, j, ww, hh)),
             ThreshSum(src.band_d, i, j, ww, hh))]]

\* x < 0.0 ? 0.0 : x (lines 296-298)
Clip0(x) == CHOOSE v \in {IF Lt(a, Zero) THEN Zero ELSE a : a \in {x}} : TRUE

\* x = fabsf(x) - thr, then the clip (lines 292-298)
CmPixel(x, thr) == Clip0(FSub(F32, fabsf(x), thr))

\* adm_cm (lines 273-305)
adm_cm(src, thresh, ww, hh) ==
    [band_h |-> [i \in 0..(hh - 1) |-> [j \in 0..(ww - 1) |->
                    CmPixel(src.band_h[i][j], thresh[i][j])]],
     band_v |-> [i \in 0..(hh - 1) |-> [j \in 0..(ww - 1) |->
                    CmPixel(src.band_v[i][j], thresh[i][j])]],
     band_d |-> [i \in 0..(hh - 1) |-> [j \in 0..(ww - 1) |->
                    CmPixel(src.band_d[i][j], thresh[i][j])]]]

\* get_cube (lines 92-95)
get_cube(val) == CHOOSE v \in {Mul(F32, Mul(F32, a, a), a) : a \in {val}} : TRUE

\* the largest n with n * n * n <= x
ICbrt(x) ==
    CHOOSE n \in 0..(2^(FloatBits + 4)) :
        n * n * n <= x /\ x < (n + 1) * (n + 1) * (n + 1)

\* the cube root of X * 2^(3 * q), rounded to a float: n is its integer part
\* at FloatBits + 1 more bits
CbrtRounded(X, q, n) ==
    IF n * n * n = X
    THEN Round(F32, 1, n, 1, q - (FloatBits + 1))
    ELSE Round(F32, 1, 2 * n + 1, 1, q - (FloatBits + 1) - 1)

CbrtOf(x) ==
    IF IsNaN(x) \/ IsInf(x) \/ x = Zero THEN x
    ELSE CHOOSE v \in
            {CbrtRounded(X, x[2] \div 3, ICbrt(X)) :
                X \in {x[1] * 2^(x[2] % 3) * 2^(3 * (FloatBits + 1))}} : TRUE

\* powf(x, 1.0 / 3.0) for x >= 0 (lines 118-119), rounded to a float
Cbrt(x) == CHOOSE v \in {CbrtOf(a) : a \in {x}} : TRUE

\* the loop of adm_sum_cube (lines 111-116) over the first cnt pixels of the
\* region, row by row
RECURSIVE CubeAcc(_, _, _, _, _)
CubeAcc(x, top, left, cols, cnt) ==
    IF cnt = 0 THEN Zero
    ELSE FAdd(F32, CubeAcc(x, top, left, cols, cnt - 1),
              get_cube(fabsf(x[top + ((cnt - 1) \div cols)]
                                [left + ((cnt - 1) % cols)])))

\* no second term
NoStabilizer(ww, hh) == Zero

\* the second term of adm_sum_cube's result (lines 118-119)
Stabilizer(ww, hh) ==
    Cbrt(Cvt(F32, Const(F64, (hh - 2 * BorderLo(hh)) * (ww - 2 * BorderLo(ww)), 32)))

\* adm_sum_cube (lines 97-120)
adm_sum_cube(x, ww, hh) ==
    FAdd(F32,
         Cbrt(CubeAcc(x, BorderLo(hh), BorderLo(ww), ww - 2 * BorderLo(ww),
                      (hh - 2 * BorderLo(hh)) * (ww - 2 * BorderLo(ww)))),
         Stabilizer(ww, hh))

\* three += of adm_sum_cube into a float that starts at 0.0 (lines 494-521)
SumBands(b, ww, hh) ==
    FAdd(F32,
         FAdd(F32,
              FAdd(F32, Zero, adm_sum_cube(b.band_h, ww, hh)),
              adm_sum_cube(b.band_v, ww, hh)),
         adm_sum_cube(b.band_d, ww, hh))

\* a floor without the factor 1e-2 / (1920.0 * 1080.0)
PixelCountLimit(ww, hh) == FromInt(F64, ww * hh)

\* double numden_limit = 1e-2 * (w * h) / (1920.0 * 1080.0) (line 436)
NumdenLimit(ww, hh) ==
    FDiv(F64, FMul(F64, Const(F64, 1, 100), FromInt(F64, ww * hh)),
         FromInt(F64, 1920 * 1080))

\* num < numden_limit ? 0 : num (lines 540, 541)
Floor(x, limit) == IF FLt(x, limit) THEN Zero ELSE x

\* the division without the test of den
Ratio(n, d) == FDiv(F64, n, d)

\* lines 543-547: 1.0f if den == 0.0, num / den if not
Score(n, d) == IF FEq(d, Zero) THEN Const(F64, 1, 1) ELSE FDiv(F64, n, d)

(***************************************************************************)
(* compute_adm2 on values: the same positions as above, each step now      *)
(* computing what its kernel writes.                                       *)
(***************************************************************************)
\* what no step on values changes: the index machine's bookkeeping and the
\* caller's two planes
idxAux == <<ext, temp_n, bad, dwt_out, ref, main, stale>>

\* float num_scale = 0.0, den_scale = 0.0; adm_dwt2(curr_ref_scale, &ref_dwt2,
\* ...) (lines 494-498)
V_dwt_ref ==
    /\ pc = "dwt_ref"
    /\ num_scale' = Zero
    /\ den_scale' = Zero
    /\ ref_dwt2' = adm_dwt2(curr_ref_scale, w, h)
    /\ pc' = "dwt_main"
    /\ UNCHANGED <<w, h, orig_w, orig_h, scale, idxAux, lifeVars>>
    /\ UNCHANGED <<curr_ref_scale, curr_main_scale, main_dwt2, gain, angle_flag,
                   decouple_r, decouple_a, csf_o, csf_r, csf_a, mta, cm_r>>
    /\ UNCHANGED <<num, den, scores, numden_limit, score, score_num, score_den>>
    /\ UNCHANGED outVars

\* adm_dwt2(curr_main_scale, &main_dwt2, ...); w = (w + 1) / 2; h = (h + 1) / 2;
\* (lines 499-503)
V_dwt_main ==
    /\ pc = "dwt_main"
    /\ main_dwt2' = adm_dwt2(curr_main_scale, w, h)
    /\ w' = Halve(w)
    /\ h' = Halve(h)
    /\ pc' = "decouple"
    /\ UNCHANGED <<orig_w, orig_h, scale, idxAux, lifeVars, sumVars>>
    /\ UNCHANGED <<curr_ref_scale, curr_main_scale, ref_dwt2, gain, angle_flag,
                   decouple_r, decouple_a, csf_o, csf_r, csf_a, mta, cm_r>>
    /\ UNCHANGED outVars

\* adm_decouple(&ref_dwt2, &main_dwt2, &decouple_r, &decouple_a, w, h, ...)
\* (line 505)
V_decouple ==
    /\ pc = "decouple"
    /\ \E out \in {adm_decouple(ref_dwt2, main_dwt2, w, h)} :
          /\ gain' = out.k
          /\ angle_flag' = out.flag
          /\ decouple_r' = out.r
          /\ decouple_a' = out.a
    /\ pc' = "csf"
    /\ UNCHANGED <<w, h, orig_w, orig_h, scale, idxAux, lifeVars, sumVars>>
    /\ UNCHANGED <<curr_ref_scale, curr_main_scale, ref_dwt2, main_dwt2,
                   csf_o, csf_r, csf_a, mta, cm_r>>
    /\ UNCHANGED outVars

\* the three adm_csf calls (lines 508-510)
V_csf ==
    /\ pc = "csf"
    /\ csf_o' = adm_csf(ref_dwt2, scale, w, h)
    /\ csf_r' = adm_csf(decouple_r, scale, w, h)
    /\ csf_a' = adm_csf(decouple_a, scale, w, h)
    /\ pc' = "cm_thresh"
    /\ UNCHANGED <<w, h, orig_w, orig_h, scale, idxAux, lifeVars, sumVars>>
    /\ UNCHANGED <<curr_ref_scale, curr_main_scale, ref_dwt2, main_dwt2, gain,
                   angle_flag, decouple_r, decouple_a, mta, cm_r>>
    /\ UNCHANGED outVars

\* adm_cm_thresh(&csf_a, mta, w, h, ...) (line 512)
V_cm_thresh ==
    /\ pc = "cm_thresh"
    /\ mta' = adm_cm_thresh(csf_a, w, h)
    /\ pc' = "cm"
    /\ UNCHANGED <<w, h, orig_w, orig_h, scale, idxAux, lifeVars, sumVars>>
    /\ UNCHANGED <<curr_ref_scale, curr_main_scale, ref_dwt2, main_dwt2, gain,
                   angle_flag, decouple_r, decouple_a, csf_o, csf_r, csf_a, cm_r>>
    /\ UNCHANGED outVars

\* adm_cm(&csf_r, &cm_r, mta, w, h, ...) (line 513)
V_cm ==
    /\ pc = "cm"
    /\ cm_r' = adm_cm(csf_r, mta, w, h)
    /\ pc' = "sum_cube"
    /\ UNCHANGED <<w, h, orig_w, orig_h, scale, idxAux, lifeVars, sumVars>>
    /\ UNCHANGED <<curr_ref_scale, curr_main_scale, ref_dwt2, main_dwt2, gain,
                   angle_flag, decouple_r, decouple_a, csf_o, csf_r, csf_a, mta>>
    /\ UNCHANGED outVars

\* the six adm_sum_cube calls; num += num_scale; den += den_scale
\* (lines 515-524)
V_sum_cube ==
    /\ pc = "sum_cube"
    /\ num_scale' = SumBands(cm_r, w, h)
    /\ den_scale' = SumBands(csf_o, w, h)
    /\ num' = FAdd(F64, num, Cvt(F64, num_scale'))
    /\ den' = FAdd(F64, den, Cvt(F64, den_scale'))
    /\ pc' = "copy"
    /\ UNCHANGED <<w, h, orig_w, orig_h, scale, idxAux, lifeVars, bandVars>>
    /\ UNCHANGED <<scores, numden_limit, score, score_num, score_den>>
    /\ UNCHANGED outVars

\* a copy that never advances its source pointer
copy_first_row(src, ww, hh) ==
    [i \in 0..(hh - 1) |-> [j \in 0..(ww - 1) |-> src[0][j]]]

\* adm_buffer_copy (lines 404-416): hh rows of linewidth = ww * sizeof(float)
\* bytes; both strides are buf_stride, so row i goes to row i
adm_buffer_copy(src, ww, hh) ==
    [i \in 0..(hh - 1) |-> [j \in 0..(ww - 1) |-> src[i][j]]]

\* the two adm_buffer_copy calls into ref_scale and main_scale, which
\* curr_ref_scale and curr_main_scale point to from now on, scores[2*scale+0],
\* scores[2*scale+1] and the end of the loop body (lines 526-538)
V_copy ==
    /\ pc = "copy"
    /\ curr_ref_scale' = adm_buffer_copy(ref_dwt2.band_a, w, h)
    /\ curr_main_scale' = adm_buffer_copy(main_dwt2.band_a, w, h)
    /\ scores' = [scores EXCEPT ![2 * scale] = Cvt(F64, num_scale),
                                ![2 * scale + 1] = Cvt(F64, den_scale)]
    /\ outs' = outs \cup ScoresStored(scale)
    /\ adm_ret' = adm_ret
    /\ scale' = scale + 1
    /\ pc' = IF scale + 1 < NumScales THEN "dwt_ref" ELSE "final"
    /\ UNCHANGED <<w, h, orig_w, orig_h, idxAux, lifeVars>>
    /\ UNCHANGED <<ref_dwt2, main_dwt2, gain, angle_flag, decouple_r,
                   decouple_a, csf_o, csf_r, csf_a, mta, cm_r>>
    /\ UNCHANGED <<num_scale, den_scale, num, den, numden_limit, score,
                   score_num, score_den>>

\* the noise floor, the score and the two sums handed back (lines 540-549)
V_final ==
    /\ pc = "final"
    /\ num' = Floor(num, numden_limit)
    /\ den' = Floor(den, numden_limit)
    /\ score' = Score(num', den')
    /\ score_num' = num'
    /\ score_den' = den'
    /\ outs' = outs \cup ScoreStored
    /\ adm_ret' = 0
    /\ pc' = "done"
    /\ UNCHANGED <<w, h, orig_w, orig_h, scale, idxAux, lifeVars, bandVars>>
    /\ UNCHANGED <<num_scale, den_scale, scores, numden_limit>>

\* the smallest frame side on which the four halvings never meet a side of 1
MinSide == 2^(NumScales - 1) + 1

\* the 8-bit pixel of level c: the levels 0..MaxPix spread over 0..255
Pixel(c) == c * 2^(8 - Bits(MaxPix))

\* the pixel planes the value machine is run on: black, and a flat plane, a
\* vertical edge and a single bright pixel at every level up to MaxPix; a
\* pixel becomes (float) ref_ptr[j] (line 574)
PlaneOf(kind, c, ww, hh) ==
    [i \in 0..(hh - 1) |-> [j \in 0..(ww - 1) |->
        FromInt(F32,
                CASE kind = "flat" -> Pixel(c)
                  [] kind = "edge" -> (IF j >= ww \div 2 THEN Pixel(c) ELSE 0)
                  [] kind = "dot"  ->
                        (IF i = hh \div 2 /\ j = ww \div 2 THEN Pixel(c) ELSE 0))]]

Planes(ww, hh) ==
    {PlaneOf("flat", 0, ww, hh)}
        \cup {PlaneOf(kind, c, ww, hh) : kind \in {"flat", "edge", "dot"}, c \in 1..MaxPix}

\* the locals of compute_adm2 at its entry (lines 436, 467-468, 471) and the
\* caller's score, score_num, score_den (lines 599-602); nothing is in the
\* arena yet
EntrySums(ww, hh) ==
    /\ num_scale = Zero /\ den_scale = Zero
    /\ num = Zero /\ den = Zero
    /\ scores = [n \in 0..(2 * NumScales - 1) |-> <<>>]
    /\ numden_limit = NumdenLimit(ww, hh)
    /\ score = Zero /\ score_num = Zero /\ score_den = Zero
    /\ adm_ret = 1
    /\ outs = {}

NoBands ==
    /\ ref_dwt2 = <<>> /\ main_dwt2 = <<>>
    /\ gain = <<>> /\ angle_flag = <<>>
    /\ decouple_r = <<>> /\ decouple_a = <<>>
    /\ csf_o = <<>> /\ csf_r = <<>> /\ csf_a = <<>>
    /\ mta = <<>> /\ cm_r = <<>>

NoIdxAux ==
    /\ ext = <<>> /\ temp_n = <<>> /\ bad = {} /\ dwt_out = <<>>
    /\ stale = Zero

\* do_adm has converted two frames, MinSide or MinSide + 1 pixels wide and
\* high, and enters compute_adm2
InitAdm ==
    /\ orig_w \in {MinSide, MinSide + 1}
    /\ orig_h \in {MinSide, MinSide + 1}
    /\ w = orig_w /\ h = orig_h
    /\ scale = 0
    /\ pc = "dwt_ref"
    /\ ref \in Planes(orig_w, orig_h)
    /\ main \in Planes(orig_w, orig_h)
    /\ curr_ref_scale = ref
    /\ curr_main_scale = main
    /\ NoBands
    /\ EntrySums(orig_w, orig_h)
    /\ NoIdxAux
    /\ IdleLife

NextAdm ==
    \/ V_dwt_ref
    \/ V_dwt_main
    \/ V_decouple
    \/ V_csf
    \/ V_cm_thresh
    \/ V_cm
    \/ V_sum_cube
    \/ V_copy
    \/ V_final

SpecAdm == InitAdm /\ [][NextAdm]_vars

(***************************************************************************)
(* The kernels from adm_decouple to adm_cm on a band of one pixel, for     *)
(* every coefficient of CoefVals: what compute_adm2 does at a scale whose  *)
(* bands are 1 x 1.                                                        *)
(***************************************************************************)
\* the coefficients of the horizontal band: the small integers, eps and -eps
CoefVals == {FromInt(F32, n) : n \in (0 - MaxCoef)..MaxCoef} \cup {eps, FNeg(eps)}

\* the coefficients of the vertical band
SideVals == {Zero, One, FNeg(One)}

\* the reference's and the distorted frame's coefficient of the diagonal band
DiagPairs == {<<Zero, One>>, <<One, One>>, <<FNeg(eps), One>>}

Plane1(x) == [i \in {0} |-> [j \in {0} |-> x]]

Band1(xa, xh, xv, xd) ==
    [band_a |-> Plane1(xa), band_h |-> Plane1(xh), band_v |-> Plane1(xv),
     band_d |-> Plane1(xd)]

InitPix ==
    /\ orig_w = 1 /\ orig_h = 1
    /\ w = 1 /\ h = 1
    /\ scale = 0
    /\ pc = "decouple"
    /\ ref = Plane1(Zero) /\ main = Plane1(Zero)
    /\ curr_ref_scale = ref
    /\ curr_main_scale = main
    /\ \E oh \in CoefVals, th \in CoefVals, ov \in SideVals, tv \in SideVals,
          dd \in DiagPairs :
          /\ ref_dwt2 = Band1(Zero, oh, ov, dd[1])
          /\ main_dwt2 = Band1(Zero, th, tv, dd[2])
    /\ gain = <<>> /\ angle_flag = <<>>
    /\ decouple_r = <<>> /\ decouple_a = <<>>
    /\ csf_o = <<>> /\ csf_r = <<>> /\ csf_a = <<>>
    /\ mta = <<>> /\ cm_r = <<>>
    /\ EntrySums(orig_w, orig_h)
    /\ NoIdxAux
    /\ IdleLife

NextPix ==
    \/ V_decouple
    \/ V_csf
    \/ V_cm_thresh
    \/ V_cm

SpecPix == InitPix /\ [][NextPix]_vars

(***************************************************************************)
(* The end of compute_adm2 (lines 540-549) as a function of the two sums   *)
(* and of the frame size: the sums are drawn from SumVals, the sizes from  *)
(* Sides, and the loop is over.                                            *)
(***************************************************************************)
RECURSIVE HalveTimes(_, _)
HalveTimes(n, times) == IF times = 0 THEN n ELSE HalveTimes(Halve(n), times - 1)

\* the frame sides of the reduction: the smallest, and up to full HD
Sides == {MinSide, 64, 1080, 1920}

\* the sums of the reduction: zero, the small integers, and the noise floor
\* of the frame, half of it and twice it
SumVals(ww, hh) ==
    {FromInt(F64, n) : n \in 0..MaxSum}
        \cup {FMul(F64, NumdenLimit(ww, hh), Const(F64, n, 2)) : n \in {1, 2, 4}}

InitReduce ==
    /\ orig_w \in Sides /\ orig_h \in Sides
    /\ w = HalveTimes(orig_w, NumScales) /\ h = HalveTimes(orig_h, NumScales)
    /\ scale = NumScales
    /\ pc = "final"
    /\ num \in SumVals(orig_w, orig_h)
    /\ den \in SumVals(orig_w, orig_h)
    /\ scores = [n \in 0..(2 * NumScales - 1) |->
                    IF n = 0 THEN num ELSE IF n = 1 THEN den ELSE Zero]
    /\ num_scale = Zero /\ den_scale = Zero
    /\ numden_limit = NumdenLimit(orig_w, orig_h)
    /\ score = Zero /\ score_num = Zero /\ score_den = Zero
    /\ adm_ret = 1
    /\ outs = UNION {ScoresStored(sc) : sc \in 0..(NumScales - 1)}
    /\ ref = <<>> /\ main = <<>>
    /\ curr_ref_scale = <<>> /\ curr_main_scale = <<>>
    /\ NoBands
    /\ NoIdxAux
    /\ IdleLife

NextReduce == V_final

SpecReduce == InitReduce /\ [][NextReduce]_vars

(***************************************************************************)
(* adm_dwt2 on constant planes of every size from 1 x 1: the two calls of  *)
(* scale 0, on a reference and a distorted plane of one level each.        *)
(***************************************************************************)
\* the levels of the constant planes: black, the pixel levels, and the
\* small integers
FlatLevels ==
    {FromInt(F32, Pixel(c)) : c \in 0..MaxPix}
        \cup {FromInt(F32, n) : n \in 1..(MaxCoef + 2)}

\* what the memory next to a buffer can hold
StaleVals == {Zero, One}

ConstPlane(c, ww, hh) == [i \in 0..(hh - 1) |-> [j \in 0..(ww - 1) |-> c]]

InitDwt ==
    /\ orig_w \in 1..MaxBand /\ orig_h \in 1..MaxBand
    /\ w = orig_w /\ h = orig_h
    /\ scale = 0
    /\ pc = "dwt_ref"
    /\ \E c \in FlatLevels : ref = ConstPlane(c, orig_w, orig_h)
    /\ \E c \in FlatLevels : main = ConstPlane(c, orig_w, orig_h)
    /\ curr_ref_scale = ref
    /\ curr_main_scale = main
    /\ NoBands
    /\ EntrySums(orig_w, orig_h)
    /\ ext = <<>> /\ temp_n = <<>> /\ bad = {} /\ dwt_out = <<>>
    /\ stale \in StaleVals
    /\ IdleLife

NextDwt ==
    \/ V_dwt_ref
    \/ V_dwt_main

SpecDwt == InitDwt /\ [][NextDwt]_vars

(***************************************************************************)
(* The vmaf filter (vf_vmaf.c): the filter thread hands frame pairs to the *)
(* worker thread through gref, gmain and frame_set, under lock and cond.   *)
(* The worker is compute_vmaf, which calls read_frame until it returns a   *)
(* non-zero value.  read_frame_8bit and read_frame_10bit differ only in    *)
(* the pixel type of the copy.                                             *)
(***************************************************************************)
Threads == {"filter", "worker"}

\* the variables of the adm filter
admVars == <<idxVars, valVars, inputs, s, life, ret, core>>

\* what the steps of do_vmaf, read_frame and the locked part of uninit leave
\* alone
restVars == <<admVars, vmaf, read_frame>>

\* a producer that never waits
NeverWait(fs) == FALSE

\* while (s->frame_set != 0) (line 236)
MustWait(fs) == fs # 0

\* a consumer that waits for a frame whatever eof is
NoFrame == frame_set = 0

\* while (!s->frame_set && !s->eof) (lines 95, 153)
NothingToRead == frame_set = 0 /\ eof = 0

\* pthread_mutex_lock: thread t, at position from, gets the free mutex
mutex_lock(t, from, to) ==
    /\ pos[t] = from
    /\ lock = "none"
    /\ lock' = t
    /\ pos' = [pos EXCEPT ![t] = to]
    /\ UNCHANGED cond

\* pthread_mutex_unlock
mutex_unlock(t, from, to) ==
    /\ pos[t] = from
    /\ lock' = "none"
    /\ pos' = [pos EXCEPT ![t] = to]
    /\ UNCHANGED cond

\* pthread_cond_wait: the mutex is released and t sleeps on cond
cond_wait(t, to) ==
    /\ lock' = "none"
    /\ cond' = cond \cup {t}
    /\ pos' = [pos EXCEPT ![t] = to]

\* where a thread that leaves pthread_cond_wait takes the mutex again
Relock(t) == IF t = "filter" THEN "d_relock" ELSE "r_relock"

\* pthread_cond_signal: one of the waiting threads, if any, is woken
cond_signal(t, from, to) ==
    /\ pos[t] = from
    /\ IF cond = {}
       THEN /\ pos' = [pos EXCEPT ![t] = to]
            /\ cond' = cond
       ELSE \E u \in cond :
               /\ cond' = cond \ {u}
               /\ pos' = [pos EXCEPT ![t] = to, ![u] = Relock(u)]
    /\ UNCHANGED lock

\* a thread may leave pthread_cond_wait without a signal
spurious_wakeup ==
    /\ \E u \in cond :
          /\ cond' = cond \ {u}
          /\ pos' = [pos EXCEPT ![u] = Relock(u)]
    /\ UNCHANGED <<frame_set, eof, gref, gmain, lock, sent, ref_data,
                   main_data, rf_ret, consumed>>
    /\ UNCHANGED restVars

\* the framework calls do_vmaf with the next frame pair
do_vmaf_call ==
    /\ pos["filter"] = "idle"
    /\ sent < MaxFrames
    /\ sent' = sent + 1
    /\ pos' = [pos EXCEPT !["filter"] = "d_lock"]
    /\ UNCHANGED <<frame_set, eof, gref, gmain, lock, cond, ref_data,
                   main_data, rf_ret, consumed>>
    /\ UNCHANGED restVars

\* pthread_mutex_lock(&s->lock) (line 234), and again when the wait ends
do_vmaf_lock ==
    /\ \/ mutex_lock("filter", "d_lock", "d_test")
       \/ mutex_lock("filter", "d_relock", "d_test")
    /\ UNCHANGED <<frame_set, eof, gref, gmain, sent, ref_data, main_data,
                   rf_ret, consumed>>
    /\ UNCHANGED restVars

\* while (s->frame_set != 0) pthread_cond_wait(...) (lines 236-238)
do_vmaf_test ==
    /\ pos["filter"] = "d_test"
    /\ IF MustWait(frame_set)
       THEN cond_wait("filter", "d_wait")
       ELSE /\ pos' = [pos EXCEPT !["filter"] = "d_ref"]
            /\ UNCHANGED <<lock, cond>>
    /\ UNCHANGED <<frame_set, eof, gref, gmain, sent, ref_data, main_data,
                   rf_ret, consumed>>
    /\ UNCHANGED restVars

\* av_frame_ref(s->gref, ref) (line 240)
do_vmaf_ref ==
    /\ pos["filter"] = "d_ref"
    /\ gref' = sent
    /\ pos' = [pos EXCEPT !["filter"] = "d_main"]
    /\ UNCHANGED <<frame_set, eof, gmain, lock, cond, sent, ref_data,
                   main_data, rf_ret, consumed>>
    /\ UNCHANGED restVars

\* av_frame_ref(s->gmain, main) (line 241)
do_vmaf_main ==
    /\ pos["filter"] = "d_main"
    /\ gmain' = sent
    /\ pos' = [pos EXCEPT !["filter"] = "d_set"]
    /\ UNCHANGED <<frame_set, eof, gref, lock, cond, sent, ref_data,
                   main_data, rf_ret, consumed>>
    /\ UNCHANGED restVars

\* s->frame_set = 1 (line 243)
do_vmaf_set ==
    /\ pos["filter"] = "d_set"
    /\ frame_set' = 1
    /\ pos' = [pos EXCEPT !["filter"] = "d_signal"]
    /\ UNCHANGED <<eof, gref, gmain, lock, cond, sent, ref_data, main_data,
                   rf_ret, consumed>>
    /\ UNCHANGED restVars

\* pthread_cond_signal(&s->cond) (line 245)
do_vmaf_signal ==
    /\ cond_signal("filter", "d_signal", "d_unlock")
    /\ UNCHANGED <<frame_set, eof, gref, gmain, sent, ref_data, main_data,
                   rf_ret, consumed>>
    /\ UNCHANGED restVars

\* pthread_mutex_unlock(&s->lock); return main (lines 246-248)
do_vmaf_unlock ==
    /\ mutex_unlock("filter", "d_unlock", "idle")
    /\ UNCHANGED <<frame_set, eof, gref, gmain, sent, ref_data, main_data,
                   rf_ret, consumed>>
    /\ UNCHANGED restVars

\* the framework calls uninit: ff_dualinput_uninit, pthread_mutex_lock
\* (lines 349-351)
vmaf_uninit_lock ==
    /\ \/ /\ pos["filter"] = "idle"
          /\ pos' = [pos EXCEPT !["filter"] = "u_lock"]
          /\ UNCHANGED <<lock, cond>>
       \/ mutex_lock("filter", "u_lock", "u_eof")
    /\ UNCHANGED <<frame_set, eof, gref, gmain, sent, ref_data, main_data,
                   rf_ret, consumed>>
    /\ UNCHANGED restVars

\* s->eof = 1 (line 352)
vmaf_uninit_eof ==
    /\ pos["filter"] = "u_eof"
    /\ eof' = 1
    /\ pos' = [pos EXCEPT !["filter"] = "u_signal"]
    /\ UNCHANGED <<frame_set, gref, gmain, lock, cond, sent, ref_data,
                   main_data, rf_ret, consumed>>
    /\ UNCHANGED restVars

\* pthread_cond_signal(&s->cond) (line 353)
vmaf_uninit_signal ==
    /\ cond_signal("filter", "u_signal", "u_unlock")
    /\ UNCHANGED <<frame_set, eof, gref, gmain, sent, ref_data, main_data,
                   rf_ret, consumed>>
    /\ UNCHANGED restVars

\* pthread_mutex_unlock(&s->lock) (line 354)
vmaf_uninit_unlock ==
    /\ mutex_unlock("filter", "u_unlock", "u_join")
    /\ UNCHANGED <<frame_set, eof, gref, gmain, sent, ref_data, main_data,
                   rf_ret, consumed>>
    /\ UNCHANGED restVars

\* pthread_join(s->vmaf_thread, NULL); av_frame_free(&s->gref);
\* av_frame_free(&s->gmain) (lines 356-359)
vmaf_uninit_join ==
    /\ pos["filter"] = "u_join"
    /\ pos["worker"] = "exited"
    /\ gref' = 0
    /\ gmain' = 0
    /\ pos' = [pos EXCEPT !["filter"] = "done"]
    /\ UNCHANGED <<frame_set, eof, lock, cond, sent, ref_data, main_data,
                   rf_ret, consumed>>
    /\ UNCHANGED restVars

\* compute_vmaf calls read_frame (line 216)
read_frame_call ==
    /\ pos["worker"] = "r_call"
    /\ pos' = [pos EXCEPT !["worker"] = "r_lock"]
    /\ UNCHANGED <<frame_set, eof, gref, gmain, lock, cond, sent, ref_data,
                   main_data, rf_ret, consumed>>
    /\ UNCHANGED restVars

\* pthread_mutex_lock(&s->lock) (lines 93, 151), and again when the wait ends
read_frame_lock ==
    /\ \/ mutex_lock("worker", "r_lock", "r_test")
       \/ mutex_lock("worker", "r_relock", "r_test")
    /\ UNCHANGED <<frame_set, eof, gref, gmain, sent, ref_data, main_data,
                   rf_ret, consumed>>
    /\ UNCHANGED restVars

\* while (!s->frame_set && !s->eof) pthread_cond_wait(...); if (s->frame_set)
\* (lines 95-99, 153-157)
read_frame_test ==
    /\ pos["worker"] = "r_test"
    /\ IF NothingToRead
       THEN cond_wait("worker", "r_wait")
       ELSE /\ pos' = [pos EXCEPT !["worker"] =
                          IF frame_set # 0 THEN "r_copy_ref" ELSE "r_ret"]
            /\ UNCHANGED <<lock, cond>>
    /\ UNCHANGED <<frame_set, eof, gref, gmain, sent, ref_data, main_data,
                   rf_ret, consumed>>
    /\ UNCHANGED restVars

\* the copy of s->gref->data[0] into ref_data (lines 101-118, 159-176)
read_frame_copy_ref ==
    /\ pos["worker"] = "r_copy_ref"
    /\ ref_data' = gref
    /\ pos' = [pos EXCEPT !["worker"] = "r_copy_main"]
    /\ UNCHANGED <<frame_set, eof, gref, gmain, lock, cond, sent, main_data,
                   rf_ret, consumed>>
    /\ UNCHANGED restVars

\* the copy of s->gmain->data[0] into main_data (lines 120-129, 178-187)
read_frame_copy_main ==
    /\ pos["worker"] = "r_copy_main"
    /\ main_data' = gmain
    /\ pos' = [pos EXCEPT !["worker"] = "r_ret"]
    /\ UNCHANGED <<frame_set, eof, gref, gmain, lock, cond, sent, ref_data,
                   rf_ret, consumed>>
    /\ UNCHANGED restVars

\* int ret = !s->frame_set; s->frame_set = 0 (lines 132-134, 190-192)
read_frame_clear ==
    /\ pos["worker"] = "r_ret"
    /\ rf_ret' = IF frame_set = 0 THEN 1 ELSE 0
    /\ frame_set' = 0
    /\ pos' = [pos EXCEPT !["worker"] = "r_signal"]
    /\ UNCHANGED <<eof, gref, gmain, lock, cond, sent, ref_data, main_data,
                   consumed>>
    /\ UNCHANGED restVars

\* pthread_cond_signal(&s->cond) (lines 136, 194)
read_frame_signal ==
    /\ cond_signal("worker", "r_signal", "r_unlock")
    /\ UNCHANGED <<frame_set, eof, gref, gmain, sent, ref_data, main_data,
                   rf_ret, consumed>>
    /\ UNCHANGED restVars

\* pthread_mutex_unlock(&s->lock) (lines 137, 195)
read_frame_unlock ==
    /\ mutex_unlock("worker", "r_unlock", "r_return")
    /\ UNCHANGED <<frame_set, eof, gref, gmain, sent, ref_data, main_data,
                   rf_ret, consumed>>
    /\ UNCHANGED restVars

\* if (ret) return 2; return 0 (lines 139-143, 197-201): on 0 compute_vmaf
\* has one more pair and asks for the next, on 2 it ends and the thread
\* exits (lines 226-227)
read_frame_return ==
    /\ pos["worker"] = "r_return"
    /\ IF rf_ret # 0
       THEN /\ pos' = [pos EXCEPT !["worker"] = "exited"]
            /\ consumed' = consumed
       ELSE /\ pos' = [pos EXCEPT !["worker"] = "r_call"]
            /\ consumed' = Append(consumed, <<ref_data, main_data>>)
    /\ UNCHANGED <<frame_set, eof, gref, gmain, lock, cond, sent, ref_data,
                   main_data, rf_ret>>
    /\ UNCHANGED restVars

(***************************************************************************)
(* The vmaf filter's lifecycle: init, config_input_ref, the worker's       *)
(* compute_vmaf_score, uninit.                                             *)
(***************************************************************************)
\* the default of the model_path option (line 72)
DefaultModel == "/usr/local/share/model/vmaf_v0.6.1.pkl"

\* what pthread_create can return: 0, or an error number (11 is EAGAIN)
CreateResults == {0, 11}

\* strcmp: zero exactly when the two strings are equal
strcmp(a, b) == IF a = b THEN 0 ELSE 1

\* if (strcmp(s->format, "yuv420p") || strcmp(s->format, "yuv422p") ||
\*     strcmp(s->format, "yuv444p")) read_frame = read_frame_8bit;
\* else read_frame = read_frame_10bit (lines 209-214)
SelectReadFrame(fmt) ==
    IF strcmp(fmt, "yuv420p") # 0 \/ strcmp(fmt, "yuv422p") # 0
          \/ strcmp(fmt, "yuv444p") # 0
    THEN "read_frame_8bit"
    ELSE "read_frame_10bit"

\* init (lines 251-263): gref and gmain are empty frames, the mutex and the
\* condition variable are initialised
vmaf_init ==
    /\ pos["filter"] = "new"
    /\ gref' = 0
    /\ gmain' = 0
    /\ lock' = "none"
    /\ cond' = {}
    /\ pos' = [pos EXCEPT !["filter"] = "inited"]
    /\ UNCHANGED <<frame_set, eof, sent, ref_data, main_data, rf_ret,
                   consumed>>
    /\ UNCHANGED restVars

\* config_input_ref (lines 280-312): the three tests, the three fields, and
\* pthread_create, whose thread starts in call_vmaf (lines 223-226)
vmaf_config_input_ref ==
    /\ pos["filter"] = "inited"
    /\ IF \/ inputs[0].w # inputs[1].w
          \/ inputs[0].h # inputs[1].h
          \/ inputs[0].format # inputs[1].format
          \/ vmaf.model_path = "NULL"
       THEN /\ pos' = [pos EXCEPT !["filter"] = "failed"]
            /\ vmaf' = vmaf
       ELSE \E rc \in CreateResults :
               /\ vmaf' = [vmaf EXCEPT
                              !.format = inputs[0].format,
                              !.width = inputs[0].w,
                              !.height = inputs[0].h,
                              !.vmaf_thread = IF rc = 0 THEN "created"
                                              ELSE "none"]
               /\ pos' = IF rc = 0
                         THEN [pos EXCEPT !["filter"] = "idle",
                                          !["worker"] = "c_select"]
                         ELSE [pos EXCEPT !["filter"] = "failed"]
    /\ UNCHANGED <<frame_set, eof, gref, gmain, lock, cond, sent, ref_data,
                   main_data, rf_ret, consumed, read_frame>>
    /\ UNCHANGED admVars

\* compute_vmaf_score (lines 204-216): the worker chooses read_frame and
\* enters compute_vmaf
compute_vmaf_score ==
    /\ pos["worker"] = "c_select"
    /\ read_frame' = SelectReadFrame(vmaf.format)
    /\ pos' = [pos EXCEPT !["worker"] = "r_call"]
    /\ UNCHANGED <<frame_set, eof, gref, gmain, lock, cond, sent, ref_data,
                   main_data, rf_ret, consumed, vmaf>>
    /\ UNCHANGED admVars

\* the framework calls uninit on a filter whose config_input_ref did not run
\* or failed: ff_dualinput_uninit (line 349)
vmaf_uninit_call ==
    /\ pos["filter"] \in {"inited", "failed"}
    /\ pos' = [pos EXCEPT !["filter"] = "u_lock"]
    /\ UNCHANGED <<frame_set, eof, gref, gmain, lock, cond, sent, ref_data,
                   main_data, rf_ret, consumed>>
    /\ UNCHANGED restVars

\* pthread_join(s->vmaf_thread, NULL) (line 356) when vmaf_thread is still
\* the zero of the context: the behaviour is undefined, the call returns an
\* error that uninit ignores and the frames are freed (lines 358-359), or
\* the process traps
vmaf_uninit_join_invalid ==
    /\ pos["filter"] = "u_join"
    /\ vmaf.vmaf_thread = "none"
    /\ \/ /\ pos' = [pos EXCEPT !["filter"] = "done"]
          /\ gref' = 0
          /\ gmain' = 0
       \/ /\ pos' = [pos EXCEPT !["filter"] = "SIGSEGV"]
          /\ UNCHANGED <<gref, gmain>>
    /\ UNCHANGED <<frame_set, eof, lock, cond, sent, ref_data, main_data,
                   rf_ret, consumed>>
    /\ UNCHANGED restVars

\* the links the vmaf lifecycle is run on
VmafLinks == [w : 1..MaxLinkDim, h : 1..MaxLinkDim, format : pix_fmts]

\* the filter has been created: the context is zeroed but for its options
\* (model_path is the default, or no string at all), there is no worker
InitVmafLife ==
    /\ inputs \in [{0, 1} -> VmafLinks]
    /\ \E mp \in {"NULL", DefaultModel} :
          vmaf = [format |-> "NULL", width |-> 0, height |-> 0,
                  model_path |-> mp, vmaf_thread |-> "none"]
    /\ read_frame = "none"
    /\ frame_set = 0 /\ eof = 0
    /\ gref = 0 /\ gmain = 0
    /\ lock = "none"
    /\ cond = {}
    /\ pos = [t \in Threads |-> IF t = "filter" THEN "new" ELSE "none"]
    /\ sent = 0
    /\ ref_data = 0 /\ main_data = 0
    /\ rf_ret = 0
    /\ consumed = <<>>
    /\ s = <<>> /\ life = "idle" /\ ret = "none" /\ core = <<>>
    /\ IdleIdx
    /\ IdleVal

\* init and config_input_ref have run (lines 251-312): gref and gmain are
\* empty frames, frame_set and eof are the zeroes of the context, the mutex
\* is free and the worker thread has been created
InitVmaf ==
    /\ frame_set = 0 /\ eof = 0
    /\ gref = 0 /\ gmain = 0
    /\ lock = "none"
    /\ cond = {}
    /\ pos = [t \in Threads |-> IF t = "filter" THEN "idle" ELSE "r_call"]
    /\ sent = 0
    /\ ref_data = 0 /\ main_data = 0
    /\ rf_ret = 0
    /\ consumed = <<>>
    /\ \E fmt \in pix_fmts :
          /\ vmaf = [format |-> fmt, width |-> 1, height |-> 1,
                     model_path |-> DefaultModel, vmaf_thread |-> "created"]
          /\ read_frame = SelectReadFrame(fmt)
    /\ NoAdmFilter
    /\ IdleIdx
    /\ IdleVal

NextVmaf ==
    \/ do_vmaf_call
    \/ do_vmaf_lock
    \/ do_vmaf_test
    \/ do_vmaf_ref
    \/ do_vmaf_main
    \/ do_vmaf_set
    \/ do_vmaf_signal
    \/ do_vmaf_unlock
    \/ vmaf_uninit_lock
    \/ vmaf_uninit_eof
    \/ vmaf_uninit_signal
    \/ vmaf_uninit_unlock
    \/ vmaf_uninit_join
    \/ read_frame_call
    \/ read_frame_lock
    \/ read_frame_test
    \/ read_frame_copy_ref
    \/ read_frame_copy_main
    \/ read_frame_clear
    \/ read_frame_signal
    \/ read_frame_unlock
    \/ read_frame_return
    \/ spurious_wakeup

SpecVmaf == InitVmaf /\ [][NextVmaf]_vars

\* the steps of the worker thread: compute_vmaf and its read_frame calls
WorkerStep ==
    \/ read_frame_call
    \/ read_frame_lock
    \/ read_frame_test
    \/ read_frame_copy_ref
    \/ read_frame_copy_main
    \/ read_frame_clear
    \/ read_frame_signal
    \/ read_frame_unlock
    \/ read_frame_return

\* the steps of the filter thread inside do_vmaf and uninit
FilterStep ==
    \/ do_vmaf_lock
    \/ do_vmaf_test
    \/ do_vmaf_ref
    \/ do_vmaf_main
    \/ do_vmaf_set
    \/ do_vmaf_signal
    \/ do_vmaf_unlock
    \/ vmaf_uninit_lock
    \/ vmaf_uninit_eof
    \/ vmaf_uninit_signal
    \/ vmaf_uninit_unlock
    \/ vmaf_uninit_join

\* each thread that can take a step is scheduled in the end; nothing is
\* assumed of wake-ups without a signal nor of the frames the framework sends
FairVmaf == SpecVmaf /\ WF_vars(WorkerStep) /\ WF_vars(FilterStep)

NextVmafLife ==
    \/ vmaf_init
    \/ vmaf_config_input_ref
    \/ compute_vmaf_score
    \/ vmaf_uninit_call
    \/ vmaf_uninit_join_invalid
    \/ do_vmaf_call
    \/ do_vmaf_lock
    \/ do_vmaf_test
    \/ do_vmaf_ref
    \/ do_vmaf_main
    \/ do_vmaf_set
    \/ do_vmaf_signal
    \/ do_vmaf_unlock
    \/ vmaf_uninit_lock
    \/ vmaf_uninit_eof
    \/ vmaf_uninit_signal
    \/ vmaf_uninit_unlock
    \/ vmaf_uninit_join
    \/ read_frame_call
    \/ read_frame_lock
    \/ read_frame_test
    \/ read_frame_copy_ref
    \/ read_frame_copy_main
    \/ read_frame_clear
    \/ read_frame_signal
    \/ read_frame_unlock
    \/ read_frame_return
    \/ spurious_wakeup

SpecVmafLife == InitVmafLife /\ [][NextVmafLife]_vars

(***************************************************************************)
(* The ANSNR filter (vf_ansnr.c): the source indices ansnr_filter2d reads  *)
(* in the two calls compute_ansnr makes.                                   *)
(***************************************************************************)
\* if (ii < 0) ii = -ii; else if (ii >= h) ii = 2 * h - ii - 1; and the same
\* for jj and w (lines 150-153)
Reflect(ii, dim) ==
    IF ii < 0 THEN -ii
    ELSE IF ii >= dim THEN 2 * dim - ii - 1
    ELSE ii

\* the source pixels <<ii, jj>> the loops of lines 137-168 read: every output
\* pixel (i, j) and every tap (fi, fj) of a filter fwidth wide
FilterReads(ww, hh, fwidth) ==
    {<<Reflect(i - fwidth \div 2 + fi, hh), Reflect(j - fwidth \div 2 + fj, ww)>> :
        i \in 0..(hh - 1), j \in 0..(ww - 1),
        fi \in 0..(fwidth - 1), fj \in 0..(fwidth - 1)}

\* the reads of a plane hh high and ww wide that are not pixels of the plane
OutsidePlane(reads, ww, hh) ==
    {r \in reads : ~(r[1] \in 0..(hh - 1) /\ r[2] \in 0..(ww - 1))}

\* one call of ansnr_filter2d (lines 112-169) on the plane named src: a read
\* outside the plane is undefined, the call goes on with what lies there or
\* the process traps
ansnr_filter2d(at, next, src, fwidth) ==
    /\ pc = at
    /\ \E out \in {OutsidePlane(FilterReads(w, h, fwidth), w, h)} :
          /\ bad' = bad \cup {<<src, r[1], r[2]>> : r \in out}
          /\ \/ pc' = next
             \/ out # {} /\ pc' = "SIGSEGV"
    /\ UNCHANGED <<lifeVars, valVars>>

\* ansnr_filter2d(ansnr_filter2d_ref, ref, ref_filtr, ...) (lines 196-197)
ansnr_filter2d_ref ==
    /\ ansnr_filter2d("filter_ref", "filter_dis", "ref",
                      ansnr_filter2d_ref_width)
    /\ UNCHANGED <<w, h, orig_w, orig_h, scale, ext, temp_n, dwt_out, outVars>>

\* ansnr_filter2d(ansnr_filter2d_dis, dis, dis_filtd, ...) (lines 198-199)
ansnr_filter2d_dis ==
    /\ ansnr_filter2d("filter_dis", "mse", "dis", ansnr_filter2d_dis_width)
    /\ UNCHANGED <<w, h, orig_w, orig_h, scale, ext, temp_n, dwt_out, outVars>>

\* ansnr_mse and the two scores (lines 201-211): the filtered planes are read
\* at (i, j) with i < h and j < w, and compute_ansnr returns 0
ansnr_mse ==
    /\ pc = "mse"
    /\ pc' = "done"
    /\ UNCHANGED <<w, h, orig_w, orig_h, scale, ext, temp_n, bad, dwt_out,
                   outVars>>
    /\ UNCHANGED <<lifeVars, valVars>>

\* compute_ansnr is entered with some w, h >= 1
InitAnsnr ==
    /\ w \in 1..MaxAnsnrDim
    /\ h \in 1..MaxAnsnrDim
    /\ orig_w = 0 /\ orig_h = 0
    /\ scale = 0
    /\ pc = "filter_ref"
    /\ ext = <<>>
    /\ temp_n = <<>>
    /\ bad = {}
    /\ dwt_out = <<>>
    /\ adm_ret = 1
    /\ outs = {}
    /\ IdleLife
    /\ IdleVal

NextAnsnr ==
    \/ ansnr_filter2d_ref
    \/ ansnr_filter2d_dis
    \/ ansnr_mse

SpecAnsnr == InitAnsnr /\ [][NextAnsnr]_vars

(***************************************************************************)
(* C1.  Every arena or temp_lo/temp_hi cell that an invocation of          *)
(* compute_adm2 reads was written earlier in that same invocation, for     *)
(* every w, h >= 1 (so the outputs do not depend on what the arena and the *)
(* temporary rows held before).                                            *)
(***************************************************************************)
C1_ReadsWereWritten == bad \cap {"arena", "temp"} = {}

\* the sizes on which no stage reads a mirrored index of -1: every input of
\* adm_dwt2, down to the one of scale 3, is at least 2 wide and 2 high
Supported(w0, h0) == w0 > 8 /\ h0 > 8

C1_SupportedReadsWereWritten == Supported(orig_w, orig_h) => bad = {}

(***************************************************************************)
(* C9.  For every original w, h >= 1 and each scale s = 0..3, adm_dwt2     *)
(* writes exactly (h_s + 1)/2 rows and (w_s + 1)/2 columns of each of the  *)
(* A, H, V, D bands, and the later stages of that scale and the next scale *)
(* use w_{s+1} = (w_s + 1)/2, h_{s+1} = (h_s + 1)/2: 64 -> 32, 16, 8, 4    *)
(* and 63 -> 32, 16, 8, 4.                                                 *)
(***************************************************************************)
Pow2(k) == IF k = 0 THEN 1 ELSE IF k = 1 THEN 2 ELSE IF k = 2 THEN 4
           ELSE IF k = 3 THEN 8 ELSE 16

\* n halved k times, rounding up each time
CeilDiv(n, d) == (n + d - 1) \div d

InDwt == pc \in {"dwt_ref", "dwt_main"}

AfterDwt == pc \in {"decouple", "csf", "cm_thresh", "cm", "sum_cube", "copy"}

C9_DwtHalves ==
    /\ InDwt => /\ w = CeilDiv(orig_w, Pow2(scale))
                /\ h = CeilDiv(orig_h, Pow2(scale))
    /\ pc = "dwt_main" =>
          /\ dwt_out.rows = CeilDiv(orig_h, Pow2(scale + 1))
          /\ dwt_out.cols = CeilDiv(orig_w, Pow2(scale + 1))
          /\ dwt_out.bands = AllBands(S_ref_dwt2)
          /\ dwt_out.rows = (h + 1) \div 2
          /\ dwt_out.cols = (w + 1) \div 2
    /\ AfterDwt =>
          /\ w = CeilDiv(orig_w, Pow2(scale + 1))
          /\ h = CeilDiv(orig_h, Pow2(scale + 1))
          /\ dwt_out = [rows |-> h, cols |-> w, bands |-> AllBands(S_main_dwt2)]
          /\ orig_w \in {63, 64} => w = <<32, 16, 8, 4>>[scale + 1]
          /\ orig_h \in {63, 64} => h = <<32, 16, 8, 4>>[scale + 1]
    /\ (AfterDwt /\ scale = 0) =>
          \A k \in AllBands(S_ref_dwt2) \cup AllBands(S_main_dwt2) :
              ext[k] = <<h, w>>

\* the last scale of a 63 x 64 frame: adm_dwt2 wrote 4 rows and 4 columns
C9_Witness ==
    /\ pc = "decouple" /\ scale = 3
    /\ orig_w = 63 /\ orig_h = 64
    /\ w = 4 /\ h = 4
    /\ dwt_out.rows = 4 /\ dwt_out.cols = 4

(***************************************************************************)
(* C10.  Input with zero width or zero height, or a scratch arena smaller  *)
(* than 35 buffers, is rejected with an error before compute_adm2 enters   *)
(* its loop over the scales; no frame of such a stream is processed.       *)
(***************************************************************************)
ZeroSized == \E i \in {0, 1} : inputs[i].w = 0 \/ inputs[i].h = 0

C10_MalformedRejected ==
    /\ (ZeroSized /\ ret # "none") => ret \in {"EINVAL", "ENOMEM"}
    /\ \A n \in 1..Len(core) :
          /\ core[n].w > 0
          /\ core[n].h > 0
          /\ core[n].data_buf >= NumBufs * buf_sz(core[n].w, core[n].h)

\* the same, were a trap counted as a rejection
C10_NoZeroSizedFrame ==
    \A n \in 1..Len(core) : core[n].w > 0 /\ core[n].h > 0

(***************************************************************************)
(* C2.  After adm_decouple, restored + impairment is the distorted         *)
(* coefficient, to within the rounding of the two terms, at every pixel    *)
(* and in each of the three detail bands, whether the angular test passed  *)
(* or failed.                                                              *)
(***************************************************************************)
DetailNames == {"band_h", "band_v", "band_d"}

\* FLT_EPSILON: the gap between 1.0 and the next float
FltEpsilon == <<2^(FloatBits - 1), 0 - 2 * (FloatBits - 1)>>

SumsTo(r, a, t) ==
    FGe(FMul(F32, FltEpsilon, FAdd(F32, fabsf(r), fabsf(a))),
        fabsf(FSub(F32, FAdd(F32, r, a), t)))

Decoupled == decouple_r # <<>>

C2_DecoupleSum ==
    Decoupled =>
        \A b \in DetailNames : \A i \in 0..(h - 1) : \A j \in 0..(w - 1) :
            SumsTo(decouple_r[b][i][j], decouple_a[b][i][j], main_dwt2[b][i][j])

(***************************************************************************)
(* C3.  In adm_decouple the gain k of every pixel and of each of the three *)
(* detail bands satisfies 0 <= k <= 1, whatever the two coefficients are.  *)
(***************************************************************************)
C3_GainInRange ==
    Decoupled =>
        \A b \in DetailNames : \A i \in 0..(h - 1) : \A j \in 0..(w - 1) :
            FGe(gain[b][i][j], Zero) /\ FGe(One, gain[b][i][j])

\* the gain is in range whenever reference + eps is a normal float
C3_GainInRangeUnlessCancelled ==
    Decoupled =>
        \A b \in DetailNames : \A i \in 0..(h - 1) : \A j \in 0..(w - 1) :
            IsSubnormal(FAdd(F32, ref_dwt2[b][i][j], eps))
                \/ (FGe(gain[b][i][j], Zero) /\ FGe(One, gain[b][i][j]))

(***************************************************************************)
(* C4.  Every value adm_cm writes is >= 0 and is max(0, |weighted          *)
(* restored| - threshold), in each of the three bands.                     *)
(***************************************************************************)
Masked == cm_r # <<>>

MaxZero(x) == IF FGt(x, Zero) THEN x ELSE Zero

C4_MaskedNonNegative ==
    Masked =>
        \A b \in DetailNames : \A i \in 0..(h - 1) : \A j \in 0..(w - 1) :
            /\ FGe(cm_r[b][i][j], Zero)
            /\ cm_r[b][i][j] = MaxZero(FSub(F32, fabsf(csf_r[b][i][j]), mta[i][j]))

(***************************************************************************)
(* C5.  When the distorted plane equals the reference plane, at each of    *)
(* the 4 scales and at every pixel the angular test passes, restored is    *)
(* the distorted coefficient, impairment is 0 and the masking threshold is *)
(* 0; each scale's numerator equals its denominator; the final score is    *)
(* 1.0.                                                                    *)
(***************************************************************************)
OneD == Const(F64, 1, 1)

ZeroPlane(ww, hh) == [i \in 0..(hh - 1) |-> [j \in 0..(ww - 1) |-> Zero]]

\* den_scale when the three bands of csf_o are zero
StabilizerSum(ww, hh) ==
    LET st == FAdd(F32, Zero, Stabilizer(ww, hh))
    IN  Cvt(F64, FAdd(F32, FAdd(F32, FAdd(F32, Zero, st), st), st))

AfterDecouple == pc \in {"csf", "cm_thresh", "cm", "sum_cube", "copy"}

AfterThresh == pc \in {"cm", "sum_cube", "copy"}

C5_IdenticalPlanes ==
    main = ref =>
        /\ curr_main_scale = curr_ref_scale
        /\ AfterDecouple =>
              /\ main_dwt2 = ref_dwt2
              /\ angle_flag = [i \in 0..(h - 1) |-> [j \in 0..(w - 1) |-> TRUE]]
              /\ \A b \in DetailNames :
                    /\ decouple_r[b] = main_dwt2[b]
                    /\ decouple_a[b] = ZeroPlane(w, h)
        /\ AfterThresh => mta = ZeroPlane(w, h)
        /\ pc = "copy" => num_scale = den_scale
        /\ \A sc \in 0..(scale - 1) : scores[2 * sc] = scores[2 * sc + 1]
        /\ pc = "done" => score = OneD

\* a reference with detail, equal to the distorted plane, went through
C5_Witness ==
    /\ pc = "done"
    /\ main = ref
    /\ ref = PlaneOf("edge", MaxPix, orig_w, orig_h)
    /\ FGt(scores[1], StabilizerSum(HalveTimes(orig_w, 1), HalveTimes(orig_h, 1)))
    /\ score = OneD

(***************************************************************************)
(* C6, as the claim has it.  For an all-zero reference plane the summed    *)
(* denominator is floored: score_den is reported as 0 and the score is     *)
(* 1.0, whatever the distorted plane.                                      *)
(***************************************************************************)
RefIsZero == ref = ZeroPlane(orig_w, orig_h)

C6_ZeroReferenceFloored ==
    (RefIsZero /\ pc = "done") => (score_den = Zero /\ score = OneD)

(***************************************************************************)
(* C6, amended.  For an all-zero reference plane every scale's denominator *)
(* is the sum of the three stabilizing terms of adm_sum_cube, so score_den *)
(* is positive and not below the noise floor; the score is score_num /     *)
(* score_den, at least 1.0, and 1.0 when the distorted plane is all-zero   *)
(* too.                                                                    *)
(***************************************************************************)
C6_ZeroReferenceStabilised ==
    (RefIsZero /\ pc = "done") =>
        /\ \A sc \in 0..(NumScales - 1) :
              scores[2 * sc + 1] = StabilizerSum(HalveTimes(orig_w, sc + 1),
                                                 HalveTimes(orig_h, sc + 1))
        /\ FGt(score_den, Zero)
        /\ ~FLt(score_den, numden_limit)
        /\ score = FDiv(F64, score_num, score_den)
        /\ FGe(score, OneD)
        /\ main = ref => score = OneD

\* a black reference against a distorted plane with detail
C6_Witness ==
    /\ pc = "done"
    /\ RefIsZero
    /\ main # ref
    /\ FGt(score_den, numden_limit)
    /\ FGt(score, OneD)

(***************************************************************************)
(* C7.  When compute_adm2 returns, score_num is scores[0] + scores[2] +    *)
(* scores[4] + scores[6] and score_den is scores[1] + scores[3] +          *)
(* scores[5] + scores[7].                                                  *)
(***************************************************************************)
Sum4(a, b, c, d) == FAdd(F64, FAdd(F64, FAdd(F64, a, b), c), d)

C7_SumsOfScores ==
    pc = "done" =>
        /\ score_num = Sum4(scores[0], scores[2], scores[4], scores[6])
        /\ score_den = Sum4(scores[1], scores[3], scores[5], scores[7])

\* a run whose numerators differ from its denominators
C7_Witness ==
    /\ pc = "done"
    /\ main # ref
    /\ score_num # score_den
    /\ \E sc \in 0..(NumScales - 1) : scores[2 * sc] # scores[2 * sc + 1]
    /\ score_num = Sum4(scores[0], scores[2], scores[4], scores[6])

(***************************************************************************)
(* C8.  The last step of compute_adm2 replaces each of the two sums by 0   *)
(* when it is below 1e-2 * (orig_w * orig_h) / (1920 * 1080), the original *)
(* width and height; the score is then num / den, and 1.0 when the floored *)
(* den is 0, without a division.                                           *)
(***************************************************************************)
C8_FloorThenScore ==
    [][(pc = "final" /\ pc' = "done") =>
          LET limit == NumdenLimit(orig_w, orig_h)
              n == IF FLt(num, limit) THEN Zero ELSE num
              d == IF FLt(den, limit) THEN Zero ELSE den
          IN  /\ numden_limit = limit
              /\ score_num' = n
              /\ score_den' = d
              /\ score' = IF d = Zero THEN OneD ELSE FDiv(F64, n, d)
              /\ IsFinite(score')]_vars

\* a denominator between the floor of the halved size and the floor of the
\* original size was replaced by 0, and the score is 1.0
C8_Witness ==
    /\ pc = "done"
    /\ w < orig_w
    /\ FGt(scores[1], NumdenLimit(w, h))
    /\ FLt(scores[1], NumdenLimit(orig_w, orig_h))
    /\ score_den = Zero
    /\ score = OneD

(***************************************************************************)
(* C11.  If the two inputs differ in width, in height or in pixel format,  *)
(* config_input_ref returns EINVAL before it allocates any buffer and      *)
(* before it records width and height, and no frame pair of that stream    *)
(* is ever passed to compute_adm2.                                         *)
(***************************************************************************)
Differ ==
    \/ inputs[0].w # inputs[1].w
    \/ inputs[0].h # inputs[1].h
    \/ inputs[0].format # inputs[1].format

C11_MismatchRejected ==
    (Differ /\ ret # "none") =>
        /\ ret = "EINVAL"
        /\ life \in {"failed", "uninit"}
        /\ s.width = 0 /\ s.height = 0
        /\ \A b \in BufferNames : s.buf[b] = NullPtr
        /\ s.nb_frames = 0
        /\ core = <<>>

\* two links of the same non-zero size and different pixel formats, after
\* config_input_ref and uninit
C11_Witness ==
    /\ inputs[0].w = inputs[1].w /\ inputs[0].w > 0
    /\ inputs[0].h = inputs[1].h /\ inputs[0].h > 0
    /\ inputs[0].format # inputs[1].format
    /\ ret = "EINVAL"
    /\ life = "uninit"

(***************************************************************************)
(* C12.  Once setup has succeeded, compute_adm2 has no error exit: on      *)
(* every path and for every input it returns 0 and, before returning, has  *)
(* written score, score_num, score_den and all 8 entries of scores.        *)
(***************************************************************************)
AllOutputs ==
    ScoreStored \cup UNION {ScoresStored(sc) : sc \in 0..(NumScales - 1)}

C12_ReturnsZero ==
    /\ pc # "SIGSEGV"
    /\ pc = "done" => adm_ret = 0 /\ outs = AllOutputs

\* the same on the sizes whose four adm_dwt2 inputs are all at least 2 x 2
C12_SupportedReturnsZero ==
    Supported(orig_w, orig_h) =>
        /\ pc # "SIGSEGV"
        /\ pc = "done" => adm_ret = 0 /\ outs = AllOutputs
        /\ pc # "done" => adm_ret = 1 /\ ScoreStored \cap outs = {}

(***************************************************************************)
(* C13.  compute_adm2 slices the arena into exactly 35 consecutive,        *)
(* pairwise-disjoint buffers of buf_sz bytes each (2 working planes, seven *)
(* 4-band groups, 1 threshold plane, one more 4-band group), so the end of *)
(* the last slice is base + 35 * buf_sz, and buf_sz computed per frame     *)
(* equals the buf_sz config_input_ref used to allocate 35 * buf_sz bytes   *)
(* for the same width and height.                                          *)
(***************************************************************************)
BandSeq(b) == <<b.band_a, b.band_h, b.band_v, b.band_d>>

\* the buffers of a layout, in the order compute_adm2 assigns them
SliceSeq(L) ==
    <<L.ref_scale, L.main_scale>>
        \o BandSeq(L.ref_dwt2) \o BandSeq(L.main_dwt2)
        \o BandSeq(L.decouple_r) \o BandSeq(L.decouple_a)
        \o BandSeq(L.csf_o) \o BandSeq(L.csf_r) \o BandSeq(L.csf_a)
        \o <<L.mta>> \o BandSeq(L.cm_r)

\* the buffers [a, a + bs) and [b, b + bs) share no byte
Apart(a, b, bs) == a + bs <= b \/ b + bs <= a

C13_ArenaSliced ==
    \A n \in 1..Len(core) :
        LET bs == core[n].buf_sz
            L  == core[n].arena
            sl == SliceSeq(L)
        IN  /\ Len(sl) = 35
            /\ \A k \in 1..Len(sl) : sl[k] = (k - 1) * bs
            /\ \A k \in 1..Len(sl), m \in 1..Len(sl) :
                  k # m => Apart(sl[k], sl[m], bs)
            /\ L.data_top = 35 * bs
            /\ L.data_top = core[n].data_buf
            /\ L.ref_scale = S_ref_scale * bs
            /\ L.main_scale = S_main_scale * bs
            /\ L.ref_dwt2.band_a = S_ref_dwt2 * bs
            /\ L.main_dwt2.band_a = S_main_dwt2 * bs
            /\ L.decouple_r.band_a = S_decouple_r * bs
            /\ L.decouple_a.band_a = S_decouple_a * bs
            /\ L.csf_o.band_a = S_csf_o * bs
            /\ L.csf_r.band_a = S_csf_r * bs
            /\ L.csf_a.band_a = S_csf_a * bs
            /\ L.mta = S_mta * bs
            /\ L.cm_r.band_a = S_cm_r * bs

\* a frame of a MaxDim x MaxDim stream: a buffer is several aligned rows
C13_Witness ==
    /\ Len(core) > 0
    /\ core[1].w = MaxDim /\ core[1].h = MaxDim
    /\ core[1].buf_sz > MAX_ALIGN
    /\ core[1].data_buf = 35 * core[1].buf_sz

(***************************************************************************)
(* C14.  Over any stream lifecycle (setup, zero or more frames, teardown)  *)
(* the arena, the two float planes and the two temporary rows are          *)
(* allocated only in config_input_ref and never while a frame is           *)
(* processed, and every buffer that setup allocated, including after a     *)
(* setup that failed part-way, is freed exactly once in uninit.            *)
(***************************************************************************)
\* a step of config_input_ref, of do_adm, of uninit
InSetup == ret = "none" /\ ret' # "none"

InFrame == Len(core') > Len(core)

InTeardown == life # "uninit" /\ life' = "uninit"

C14_AllocatedOnceFreedOnce ==
    [][ /\ \A b \in BufferNames :
              s'.buf[b] # s.buf[b] =>
                  \/ /\ InSetup
                     /\ s.buf[b].st = "null"
                     /\ s'.buf[b].st = "live"
                  \/ /\ InTeardown
                     /\ s.buf[b].st = "live"
                     /\ s'.buf[b] = [s.buf[b] EXCEPT !.st = "freed"]
        /\ InFrame => s'.buf = s.buf
        /\ InTeardown => \A b \in BufferNames : s'.buf[b].st # "live"
      ]_vars

\* after the teardown of a stream whose setup failed at the arena: the two
\* planes were freed, the arena and the rows were never allocated
C14_Witness ==
    /\ life = "uninit"
    /\ ret = "ENOMEM"
    /\ s.buf["ref_data"].st = "freed"
    /\ s.buf["main_data"].st = "freed"
    /\ s.buf["data_buf"].st = "null"
    /\ s.buf["temp_hi"].st = "null"
    /\ s.width > 0 /\ s.height > 0

(***************************************************************************)
(* C15.  For a plane whose samples all equal one constant c, and for every *)
(* w, h >= 1, one adm_dwt2 call (with high-pass taps that sum to zero)     *)
(* yields H, V and D bands that are zero at every position and an A band   *)
(* that holds the same multiple of c at every position, border positions   *)
(* included.                                                               *)
(***************************************************************************)
\* x is zero to within the rounding of a sum of four products of size c
NearZero(x, c) ==
    FGe(FMul(F32, FMul(F32, FltEpsilon, FromInt(F32, filt_w)), fabsf(c)),
        fabsf(x))

\* the bands adm_dwt2 made of a plane of the constant c
ConstantBands(b, c) ==
    \A i \in DOMAIN b.band_a : \A j \in DOMAIN b.band_a[i] :
        /\ NearZero(b.band_h[i][j], c)
        /\ NearZero(b.band_v[i][j], c)
        /\ NearZero(b.band_d[i][j], c)
        /\ b.band_a[i][j] = b.band_a[0][0]
        /\ FEq(c, Zero) <=> FEq(b.band_a[i][j], Zero)

C15_ConstantPlane ==
    /\ pc \in {"dwt_main", "decouple"} => ConstantBands(ref_dwt2, ref[0][0])
    /\ pc = "decouple" => ConstantBands(main_dwt2, main[0][0])

\* the same for the planes that are at least 2 x 2, where every mirrored
\* index is inside the plane
C15_ConstantPlaneFromTwo ==
    (orig_w >= 2 /\ orig_h >= 2) => C15_ConstantPlane

(***************************************************************************)
(* C16.  In adm_dwt2, for every input size w, h >= 1 (in particular every  *)
(* size reached in the 4-scale cascade), every output position and every   *)
(* filter tap, the mirror-reflected source index (idx = |2*i - 1 + tap|,   *)
(* then 2*dim - idx - 1 if idx >= dim) lies in [0, dim), for both the      *)
(* vertical pass over the plane and the horizontal passes over             *)
(* temp_lo/temp_hi.                                                        *)
(***************************************************************************)
MirrorInside ==
    /\ \A src_i \in DwtSrcRows(h) : 0 <= src_i /\ src_i < h
    /\ \A src_j \in DwtTempCols(w) : 0 <= src_j /\ src_j < w

\* adm_dwt2 has run on the reference plane of this scale; w and h are still
\* the size it was called with
C16_MirrorInRange == pc = "dwt_main" => MirrorInside

\* the same for the inputs of adm_dwt2 that are at least 2 x 2
C16_MirrorInRangeFromTwo == (InDwt /\ w >= 2 /\ h >= 2) => MirrorInside

(***************************************************************************)
(* C17.  In adm_cm_thresh, for every band size w, h >= 1, every pixel and  *)
(* every tap of the 3x3 kernel, the reflected source index (src_i, src_j)  *)
(* lies in [0, h) x [0, w), so the threshold at a pixel is computed only   *)
(* from coefficients inside the band.                                      *)
(***************************************************************************)
C17_ThreshInsideBand ==
    pc = "cm" =>
        /\ \A i \in 0..(h - 1), filt_i \in 0..2 :
              Mirror(i - 1 + filt_i, h) \in 0..(h - 1)
        /\ \A j \in 0..(w - 1), filt_j \in 0..2 :
              Mirror(j - 1 + filt_j, w) \in 0..(w - 1)
        /\ ThreshSrc(h) \subseteq 0..(h - 1)
        /\ ThreshSrc(w) \subseteq 0..(w - 1)

\* adm_cm_thresh has run on a band of one column and two rows, where the
\* taps left and right of the pixel are both reflected
C17_Witness == pc = "cm" /\ w = 1 /\ h = 2

(***************************************************************************)
(* C18.  The driver runs exactly 4 scales in order, finest first, and for  *)
(* s = 1..3 the input plane of adm_dwt2 for the reference (resp.           *)
(* distorted) stream is exactly the approximation band produced at scale   *)
(* s-1 for that stream, copied into the reused working buffer with the     *)
(* arena stride; the caller's reference and distorted planes are read only *)
(* at scale 0 and never written.                                           *)
(***************************************************************************)
\* the plane a stream's adm_dwt2 call of this scale has to read: the caller's
\* plane at scale 0, the A band of the scale before afterwards
DwtInput(plane, bands) == IF scale = 0 THEN plane ELSE bands.band_a

C18_ScaleCascade ==
    [][ /\ ref' = ref
        /\ main' = main
        /\ scale' = IF pc = "copy" THEN scale + 1 ELSE scale
        /\ pc = "dwt_ref" =>
              /\ scale < NumScales
              /\ w = CeilDiv(orig_w, Pow2(scale))
              /\ h = CeilDiv(orig_h, Pow2(scale))
              /\ curr_ref_scale = DwtInput(ref, ref_dwt2)
              /\ curr_main_scale = DwtInput(main, main_dwt2)
              /\ DOMAIN curr_ref_scale = 0..(h - 1)
              /\ DOMAIN curr_ref_scale[0] = 0..(w - 1)
              /\ ref_dwt2' = adm_dwt2(DwtInput(ref, ref_dwt2), w, h)
        /\ pc = "dwt_main" =>
              main_dwt2' = adm_dwt2(DwtInput(main, main_dwt2), w, h)
        /\ pc' = "final" => scale' = NumScales
      ]_vars

\* the coarsest scale of a frame pair that differs: both streams have been
\* transformed from the A bands of scale 2
C18_Witness ==
    /\ pc = "decouple" /\ scale = NumScales - 1
    /\ ref # main
    /\ curr_ref_scale # curr_main_scale
    /\ curr_ref_scale # ref
    /\ \E i \in DOMAIN curr_ref_scale : curr_ref_scale[i] # curr_ref_scale[0]

(***************************************************************************)
(* C19.  For every w, h >= 1 and every scale, each write that compute_adm2 *)
(* and its stages make to an arena buffer targets an offset inside that    *)
(* buffer's own buf_sz-byte slice (row < (orig_h+1)/2, column bytes <      *)
(* buf_stride), and each write to temp_lo/temp_hi targets an index below   *)
(* the original width, so no stage overwrites another slice or memory      *)
(* outside the arena.                                                      *)
(***************************************************************************)
C19_WritesInsideSlice ==
    /\ \A k \in 0..(NumBufs - 1) :
          /\ ext[k][1] <= (orig_h + 1) \div 2
          /\ ext[k][2] * SizeofFloat <= buf_stride(orig_w)
          /\ ext[k][1] > 0 =>
                (ext[k][1] - 1) * buf_stride(orig_w) + ext[k][2] * SizeofFloat
                    <= buf_sz(orig_w, orig_h)
    /\ \A t \in {"lo", "hi"} :
          /\ temp_n[t] <= orig_w
          /\ temp_n[t] <= TempFloats

\* the end of a 63 x 64 frame: the bands of scale 0 filled all 32 rows of
\* their slices to the last byte of the stride, and the rows 63 entries
C19_Witness ==
    /\ pc = "done"
    /\ orig_w = 63 /\ orig_h = 64
    /\ \A k \in AllBands(S_ref_dwt2) \cup AllBands(S_main_dwt2)
                 \cup DetailBands(S_cm_r) \cup {S_ref_scale, S_main_scale, S_mta} :
          ext[k] = <<32, 32>>
    /\ buf_stride(orig_w) = 32 * SizeofFloat
    /\ temp_n["lo"] = 63 /\ temp_n["hi"] = 63

(***************************************************************************)
(* C20.  In the vmaf filter, frame pairs pass from do_vmaf (producer) to   *)
(* read_frame (worker thread) through a one-slot buffer guarded by         *)
(* lock/cond: under every interleaving, do_vmaf never overwrites           *)
(* gref/gmain while frame_set == 1, read_frame copies a pair only while    *)
(* frame_set == 1 and holding the lock, and every published pair is        *)
(* consumed exactly once and in submission order.                          *)
(***************************************************************************)
\* the pairs do_vmaf has published: the calls that reached frame_set = 1
Published ==
    IF pos["filter"] \in {"d_lock", "d_test", "d_wait", "d_relock", "d_ref",
                          "d_main", "d_set"}
    THEN sent - 1 ELSE sent

\* compute_vmaf got the pairs 1, 2, ... and each of them whole; once uninit
\* has joined the worker it got every published pair
ConsumedInOrder ==
    /\ \A n \in 1..Len(consumed) : consumed[n] = <<n, n>>
    /\ Len(consumed) <= Published
    /\ pos["worker"] = "exited" => Len(consumed) = Published
    /\ pos["filter"] = "done" => Len(consumed) = sent

C20_OneSlotHandoff ==
    [][ /\ (pos["filter"] \in {"d_ref", "d_main"}
                /\ (gref' # gref \/ gmain' # gmain)) =>
              frame_set = 0 /\ lock = "filter"
        /\ (ref_data' # ref_data \/ main_data' # main_data) =>
              frame_set = 1 /\ lock = "worker"
        /\ ConsumedInOrder
        /\ ConsumedInOrder'
      ]_vars

\* the stream is over: MaxFrames pairs went through the slot, the worker has
\* exited and uninit has joined it
C20_Witness ==
    /\ pos["filter"] = "done"
    /\ sent = MaxFrames
    /\ Len(consumed) = MaxFrames
    /\ consumed[MaxFrames] = <<MaxFrames, MaxFrames>>

(***************************************************************************)
(* C21.  Once uninit has set eof, the worker's read_frame returns the      *)
(* end-of-stream code 2 in the end (its ret is 1) after it has delivered   *)
(* every pair do_vmaf stored, a still pending one included, the thread     *)
(* exits and uninit's pthread_join completes; the two threads never wait   *)
(* on the condition variable together.                                     *)
(***************************************************************************)
Joined ==
    /\ pos["worker"] = "exited"
    /\ rf_ret = 1
    /\ pos["filter"] = "done"
    /\ Len(consumed) = sent

C21_EofEndsWorker ==
    /\ [](cond # Threads)
    /\ (eof = 1) ~> Joined

\* uninit has joined a worker that had delivered MaxFrames pairs
C21_Witness ==
    /\ Joined
    /\ eof = 1
    /\ sent = MaxFrames

(***************************************************************************)
(* C22.  Once compute_vmaf_score has chosen, read_frame is read_frame_8bit *)
(* exactly when the format is yuv420p, yuv422p or yuv444p and              *)
(* read_frame_10bit exactly when it is yuv420p10le, yuv422p10le or         *)
(* yuv444p10le.                                                            *)
(***************************************************************************)
EightBit == {"yuv420p", "yuv422p", "yuv444p"}

TenBit == {"yuv420p10le", "yuv422p10le", "yuv444p10le"}

C22_ReaderMatchesDepth ==
    read_frame # "none" =>
        /\ (read_frame = "read_frame_8bit") <=> (vmaf.format \in EightBit)
        /\ (read_frame = "read_frame_10bit") <=> (vmaf.format \in TenBit)

\* what the code does: read_frame_8bit whatever the format is
C22_AlwaysEightBit ==
    read_frame # "none" => read_frame = "read_frame_8bit"

(***************************************************************************)
(* C23.  In every lifecycle of the vmaf filter, uninit has called          *)
(* pthread_join only on a thread config_input_ref created: when uninit is  *)
(* past line 356, whether it returned or trapped there, vmaf_thread names  *)
(* a created thread.                                                       *)
(***************************************************************************)
C23_JoinsOnlyCreated ==
    pos["filter"] \in {"done", "SIGSEGV"} => vmaf.vmaf_thread = "created"

\* what the code does keep: a created worker has exited when uninit is done,
\* and no worker runs unless pthread_create returned 0
C23_CreatedIsJoined ==
    /\ (pos["filter"] = "done" /\ vmaf.vmaf_thread = "created")
          => pos["worker"] = "exited"
    /\ pos["worker"] # "none" <=> vmaf.vmaf_thread = "created"

(***************************************************************************)
(* C24.  In both ansnr_filter2d calls of compute_ansnr, the 3x3 one on the *)
(* reference and the 5x5 one on the distorted plane, every reflected       *)
(* source index (ii, jj) of every output pixel and tap lies in             *)
(* [0, h) x [0, w), for every w, h >= 1: once the first call has been      *)
(* made, no read outside a plane has been recorded.                        *)
(***************************************************************************)
C24_ReflectInPlane ==
    pc # "filter_ref" => bad = {}

\* what the code does keep: the indices are inside the plane when both sides
\* are at least 3, and those of the 3x3 kernel when both are at least 2
C24_ReflectInPlaneFromThree ==
    /\ (w >= 3 /\ h >= 3) => bad = {}
    /\ (w >= 2 /\ h >= 2) => \A r \in bad : r[1] # "ref"

====
